---- MODULE Spec2Model ----
(***************************************************************************)
(* A model of the Obsidian "frontmatter suggester" plugin: the field-path  *)
(* resolver (FrontmatterParser), the rule matcher, the suggestion engine   *)
(* and multi-select state machine (FrontmatterSuggester), and the          *)
(* debounced validation driver (ValueValidatorExtension) with its value    *)
(* validators.                                                             *)
(*                                                                         *)
(* Text is modelled character by character: a string is a sequence of      *)
(* one-character strings, a document is a sequence of lines.  Line and     *)
(* column numbers are 0-based as in the editor API; GetLine and Substring  *)
(* convert to the 1-based sequences of TLA+.                               *)
(***************************************************************************)
EXTENDS Integers, Sequences, FiniteSets, TLC

VARIABLES
    doc,                  \* the editor's text, a sequence of lines
    cursor,               \* editor.getCursor(): [line, ch]
    rules,                \* settings.rules
    minMatchLength,       \* settings.globalSettings.minMatchLength
    selectedItems,        \* FrontmatterSuggester.selectedItems (insertion-ordered Set)
    isMultiSelectMode,    \* FrontmatterSuggester.isMultiSelectMode
    currentSuggestions,   \* FrontmatterSuggester.currentSuggestions
    context,              \* EditorSuggest.context (this.context)
    toggleLog,            \* history: keys confirmed in MULTI mode since the set was last emptied
    toggleOrigin,         \* history: per selected key, the trigger context it was toggled on in
    last,                 \* history: the last suggester operation and what it did
    validationTimeouts,   \* ValueValidatorExtension.validationTimeouts (the keys of the Map)
    timers,               \* the host's timer queue: pending timeouts per key
    lastValidatedContent, \* ValueValidatorExtension.lastValidatedContent
    errors,               \* ValidationDecorator.errors for the open file
    passCount,            \* history: number of validateAllFrontmatter passes run
    lastPassContent,      \* history: text used by the last completed pass
    lastFire,             \* history: what the last timer firing saw and did
    matchPath,            \* input of the rule matcher under test
    matchedS,             \* result of FrontmatterSuggester.findMatchingRule
    matchedV,             \* result of ValueValidatorExtension.findMatchingRule
    resolution,           \* results of the resolver and the suggestion engine at the cursor
    verdict               \* a value under test and the results of the two validators

vars == << doc, cursor, rules, minMatchLength, selectedItems, isMultiSelectMode,
           currentSuggestions, context, toggleLog, toggleOrigin, last,
           validationTimeouts, timers, lastValidatedContent, errors, passCount,
           lastPassContent, lastFire, matchPath, matchedS, matchedV,
           resolution, verdict >>

suggestVars == << selectedItems, isMultiSelectMode, currentSuggestions, context,
                  toggleLog, toggleOrigin, last >>

validatorVars == << validationTimeouts, timers, lastValidatedContent, errors, passCount,
                    lastPassContent, lastFire >>

matchVars == << matchPath, matchedS, matchedV >>

pureVars == << resolution, verdict >>

(***************************************************************************)
(* Bounds of the model.                                                    *)
(***************************************************************************)
MaxRules == 2
MaxLines == 5
MaxPasses == 2
MaxToggles == 4
MaxSessionToggles == 2
MaxCol == 6

(***************************************************************************)
(* Strings.                                                                *)
(***************************************************************************)
\* null results: an absent name is the empty string (`fieldName || null`), an
\* absent record has ok = FALSE
NoName == << >>
NoBounds == [ok |-> FALSE, start |-> 0, end |-> 0]
NoFieldContext == [ok |-> FALSE, path |-> << >>, line |-> 0, indent |-> 0]

IsSpace(c) == c = " "

Spaces(n) == [i \in 1..n |-> " "]

\* String.prototype.substring(a, b) for 0 <= a <= b <= length
Substring(s, a, b) == SubSeq(s, a + 1, b)

StartsWith(s, p) == Len(p) <= Len(s) /\ SubSeq(s, 1, Len(p)) = p

\* String.prototype.includes
Includes(s, q) == \E i \in 0..(Len(s) - Len(q)) : SubSeq(s, i + 1, i + Len(q)) = q

\* String.prototype.indexOf(c, from) for a one-character c: 0-based, -1 when absent
IndexOfFrom(s, c, from) ==
    IF \E i \in (from + 1)..Len(s) : s[i] = c
    THEN (CHOOSE i \in (from + 1)..Len(s) : s[i] = c /\ \A j \in (from + 1)..(i - 1) : s[j] # c) - 1
    ELSE -1

IndexOf(s, c) == IndexOfFrom(s, c, 0)

IsBlank(s) == \A i \in 1..Len(s) : IsSpace(s[i])

\* String.prototype.trim
Trim(s) ==
    IF IsBlank(s) THEN << >>
    ELSE LET a == CHOOSE i \in 1..Len(s) : ~IsSpace(s[i]) /\ \A j \in 1..(i - 1) : IsSpace(s[j])
             b == CHOOSE i \in 1..Len(s) : ~IsSpace(s[i]) /\ \A j \in (i + 1)..Len(s) : IsSpace(s[j])
         IN SubSeq(s, a, b)

RECURSIVE Split(_, _)
\* String.prototype.split(sep) for a one-character separator
Split(s, sep) ==
    LET i == IndexOf(s, sep)
    IN IF i = -1 THEN << s >>
       ELSE << SubSeq(s, 1, i) >> \o Split(SubSeq(s, i + 2, Len(s)), sep)

RECURSIVE Join(_, _)
\* Array.prototype.join(sep)
Join(parts, sep) ==
    IF Len(parts) = 0 THEN << >>
    ELSE IF Len(parts) = 1 THEN parts[1]
    ELSE parts[1] \o sep \o Join(Tail(parts), sep)

RECURSIVE Concat(_)
\* Array.prototype.join('')
Concat(parts) == IF Len(parts) = 0 THEN << >> ELSE parts[1] \o Concat(Tail(parts))

\* Array.prototype.filter
RECURSIVE SelectSeqIdx(_, _, _)
SelectSeqIdx(s, keep, i) ==
    IF i > Len(s) THEN << >>
    ELSE (IF i \in keep THEN << s[i] >> ELSE << >>) \o SelectSeqIdx(s, keep, i + 1)

Range(s) == { s[i] : i \in 1..Len(s) }

\* the least element of a set of numbers
Least(S) == CHOOSE i \in S : \A j \in S : i <= j

\* `const v = e; ...`: the value of e, computed once, in the scope of F
With(v, F(_)) == F(v)

DELIM == << "-", "-", "-" >>
DOT == << "." >>

(***************************************************************************)
(* FrontmatterParser.                                                      *)
(***************************************************************************)
LineCount(d) == Len(d)

GetLine(d, n) == d[n + 1]

getFrontmatterBounds(d) ==
    IF Len(d) = 0 \/ Len(GetLine(d, 0)) = 0 \/ Trim(GetLine(d, 0)) # DELIM
    THEN NoBounds
    ELSE With({ i \in 1..(LineCount(d) - 1) : Trim(GetLine(d, i)) = DELIM },
              LAMBDA ends :
                 IF ends = {} THEN NoBounds
                 ELSE [ok |-> TRUE, start |-> 0, end |-> Least(ends)])

\* a block that takes its two delimiter lines in
isInFrontmatter_inclusive(cur, d) ==
    With(getFrontmatterBounds(d),
         LAMBDA bounds :
            IF ~bounds.ok THEN FALSE
            ELSE cur.line >= bounds.start /\ cur.line <= bounds.end)

isInFrontmatter(cur, d) ==
    With(getFrontmatterBounds(d),
         LAMBDA bounds :
            IF ~bounds.ok THEN FALSE
            ELSE cur.line > bounds.start /\ cur.line < bounds.end)

\* line.match(/^(\s*)/)[1].length
getIndent(line) ==
    IF IsBlank(line) THEN Len(line)
    ELSE (CHOOSE i \in 1..Len(line) : ~IsSpace(line[i]) /\ \A j \in 1..(i - 1) : IsSpace(line[j])) - 1

\* line.match(/^\s*([^\s:]+(?:\s+[^\s:]+)*):\s*(.*)$/): the name is the text
\* between the indentation and the first colon, provided it is not empty and
\* neither starts nor ends with white space.
extractFieldName(line) ==
    LET colon == IndexOf(line, ":")
        indent == getIndent(line)
    IN IF colon = -1 \/ colon <= indent \/ IsSpace(line[colon])
       THEN NoName
       ELSE Substring(line, indent, colon)

\* The upward walk shared by getFieldPathFromYAML (lines 122-136) and
\* getCurrentFieldPathHeuristic (lines 209-221): `while (searchLine > stop)`.
RECURSIVE WalkUp(_, _, _, _, _)
WalkUp(d, searchLine, stop, expectedParentIndent, path) ==
    IF ~(searchLine > stop) THEN path
    ELSE With(GetLine(d, searchLine - 1),
              LAMBDA line :
                 IF IsBlank(line) THEN WalkUp(d, searchLine - 1, stop, expectedParentIndent, path)
                 ELSE With(extractFieldName(line),
                           LAMBDA fieldName :
                              IF fieldName # NoName /\ getIndent(line) = expectedParentIndent
                              THEN WalkUp(d, searchLine - 1, stop, getIndent(line) - 2,
                                          << fieldName >> \o path)
                              ELSE WalkUp(d, searchLine - 1, stop, expectedParentIndent, path)))

\* the context returned for a path: null for the empty path
PathContext(path, cur, currentIndent) ==
    IF Len(path) = 0 THEN NoFieldContext
    ELSE [ok |-> TRUE, path |-> Join(path, DOT), line |-> cur.line, indent |-> currentIndent]

\* a resolver that looks for the first ancestor at the cursor line's own
\* indentation also when that line carries a token
ResolveLine_sameLevel(d, cur, stop, currentIndent, currentField) ==
    PathContext(IF currentField # NoName
                THEN WalkUp(d, cur.line, stop, currentIndent, << currentField >>)
                ELSE WalkUp(d, cur.line, stop, currentIndent, << >>),
                cur, currentIndent)

\* Both strategies: the cursor line's own token, then the walk down to `stop`.
ResolveLine(d, cur, stop, currentIndent, currentField) ==
    PathContext(IF currentField # NoName
                THEN WalkUp(d, cur.line, stop, currentIndent - 2, << currentField >>)
                ELSE WalkUp(d, cur.line, stop, currentIndent, << >>),
                cur, currentIndent)

ResolveFrom(d, cur, stop) ==
    ResolveLine(d, cur, stop, getIndent(GetLine(d, cur.line)),
                extractFieldName(GetLine(d, cur.line)))

\* a structured walk that stops one line short of the first line of the block
getFieldPathFromYAML_skipFirst(d, cur, frontmatterStart) == ResolveFrom(d, cur, frontmatterStart + 1)

getFieldPathFromYAML(d, cur, frontmatterStart) == ResolveFrom(d, cur, frontmatterStart)

getCurrentFieldPathHeuristic(d, cur, bounds) == ResolveFrom(d, cur, bounds.start)

(***************************************************************************)
(* yaml.load of the block interior, for the documents of this model: block *)
(* mappings of `key:` / `key: scalar` lines nested by indentation.  The    *)
(* result is the list of mapping entries in document order, each with its  *)
(* key path; ok is FALSE where the library throws.                         *)
(***************************************************************************)
BlockLines(d, bounds) == [i \in 1..(bounds.end - bounds.start - 1) |-> GetLine(d, bounds.start + i)]

\* A line the structured parser reads as a mapping entry: a key, then a colon
\* followed by a space or the end of the line.
IsYamlKeyLine(line) ==
    LET colon == IndexOf(line, ":")
    IN /\ extractFieldName(line) # NoName
       /\ (colon + 1 = Len(line) \/ IsSpace(line[colon + 2]))
       /\ IndexOfFrom(line, ":", colon + 1) = -1

YamlDropFrames(stack, n) ==
    LET keep == { i \in 1..Len(stack) : \A j \in 1..i : stack[j].indent < n }
    IN SubSeq(stack, 1, Cardinality(keep))

\* the mapping entry `key:` of line i, at indentation n, under the frames of stack
YamlEntry(st, i, n, key, hasValue, stack) ==
    LET parent == stack[Len(stack)]
        path == parent.path \o << key >>
    IN IF \/ parent.scalar
          \/ (parent.childIndent # -1 /\ parent.childIndent # n)
          \/ \E e \in Range(st.entries) : e.path = path
       THEN [st EXCEPT !.ok = FALSE]
       ELSE [ok |-> TRUE,
             stack |-> Append([stack EXCEPT ![Len(stack)].childIndent = n],
                              [indent |-> n, path |-> path, scalar |-> hasValue,
                               childIndent |-> -1]),
             entries |-> Append(st.entries, [path |-> path, line |-> i])]

\* a plain scalar line: the value of the open key above it, or an error
YamlScalar(st, n, top) ==
    IF Len(st.stack) > 1 /\ n > top.indent /\ top.childIndent = -1
    THEN [st EXCEPT !.stack[Len(st.stack)].scalar = TRUE]
    ELSE [st EXCEPT !.ok = FALSE]

YamlStep(st, i, line) ==
    IF IsBlank(line) THEN st
    ELSE IF IsYamlKeyLine(line)
    THEN YamlEntry(st, i, getIndent(line), extractFieldName(line),
                   ~IsBlank(SubSeq(line, IndexOf(line, ":") + 2, Len(line))),
                   YamlDropFrames(st.stack, getIndent(line)))
    ELSE YamlScalar(st, getIndent(line), st.stack[Len(st.stack)])

RECURSIVE YamlFold(_, _, _)
YamlFold(lines, i, st) ==
    IF i > Len(lines) \/ ~st.ok THEN st
    ELSE YamlFold(lines, i + 1, YamlStep(st, i, lines[i]))

YamlLoad(lines) ==
    YamlFold(lines, 1,
             [ok |-> TRUE,
              stack |-> << [indent |-> -1, path |-> << >>, scalar |-> FALSE, childIndent |-> -1] >>,
              entries |-> << >>])

\* Object.keys of the mapping at `path`, in document order
YamlChildren(entries, path) ==
    LET idx == { i \in 1..Len(entries) :
                    /\ Len(entries[i].path) = Len(path) + 1
                    /\ SubSeq(entries[i].path, 1, Len(path)) = path }
        picked == SelectSeqIdx(entries, idx, 1)
    IN [i \in 1..Len(picked) |-> picked[i].path[Len(path) + 1]]

YamlHasPath(entries, path) == \E e \in Range(entries) : e.path = path

getExistingSubItemsFromYAMLByPath(entries, fieldPath) ==
    With(Split(fieldPath, "."),
         LAMBDA parts :
            IF Len(fieldPath) = 0 \/ Len(entries) = 0 THEN << >>
            ELSE IF \A k \in 1..Len(parts) : YamlHasPath(entries, SubSeq(parts, 1, k))
                 THEN YamlChildren(entries, parts)
                 ELSE << >>)

\* the structured strategy first, the heuristic one when the parse throws or
\* the structured strategy returns null
ResolveIn(d, cur, bounds) ==
    With(getFieldPathFromYAML(d, cur, bounds.start + 1),
         LAMBDA result :
            IF result.ok /\ YamlLoad(BlockLines(d, bounds)).ok THEN result
            ELSE getCurrentFieldPathHeuristic(d, cur, bounds))

getCurrentFieldPath(cur, d) ==
    With(getFrontmatterBounds(d),
         LAMBDA bounds :
            IF ~bounds.ok THEN NoFieldContext
            ELSE IF ~isInFrontmatter(cur, d) THEN NoFieldContext
            ELSE ResolveIn(d, cur, bounds))

\* the first line in from..(to - 1) that matches, scanning stops at a line in `stop`; -1 if none
FirstLineIn(from, to, hit, stop) ==
    LET ok == { i \in from..(to - 1) : i \in hit /\ \A j \in from..(i - 1) : j \notin stop /\ j \notin hit }
    IN IF ok = {} THEN -1 ELSE CHOOSE i \in ok : TRUE

RECURSIVE FindNested(_, _, _, _, _)
FindNested(d, bounds, parts, partIndex, currentLine) ==
    IF partIndex > Len(parts) - 1 THEN currentLine
    ELSE With(FirstLineIn(currentLine + 1, bounds.end,
                          { j \in 0..(Len(d) - 1) :
                               /\ extractFieldName(GetLine(d, j)) = parts[partIndex + 1]
                               /\ getIndent(GetLine(d, j)) = partIndex * 2 },
                          { j \in 0..(Len(d) - 1) :
                               /\ getIndent(GetLine(d, j)) < partIndex * 2
                               /\ ~IsBlank(GetLine(d, j)) }),
              LAMBDA found :
                 IF found = -1 THEN -1
                 ELSE FindNested(d, bounds, parts, partIndex + 1, found))

FindFirstPart(d, bounds, parts) ==
    With(FirstLineIn(bounds.start + 1, bounds.end,
                     { i \in 0..(Len(d) - 1) :
                          /\ extractFieldName(GetLine(d, i)) = parts[1]
                          /\ parts[1] # NoName
                          /\ getIndent(GetLine(d, i)) = 0 },
                     {}),
         LAMBDA first :
            IF first = -1 THEN -1
            ELSE FindNested(d, bounds, parts, 1, first))

findFieldLineInEditor(fieldPath, d, bounds) == FindFirstPart(d, bounds, Split(fieldPath, "."))

RECURSIVE SubItemsScan(_, _, _, _)
SubItemsScan(d, bounds, fieldIndent, searchLine) ==
    IF ~(searchLine <= bounds.end) THEN << >>
    ELSE With(GetLine(d, searchLine),
              LAMBDA line :
                 IF getIndent(line) <= fieldIndent /\ ~IsBlank(line) THEN << >>
                 ELSE (IF getIndent(line) = fieldIndent + 2 /\ extractFieldName(line) # NoName
                       THEN << extractFieldName(line) >> ELSE << >>)
                      \o SubItemsScan(d, bounds, fieldIndent, searchLine + 1))

getExistingSubItemsHeuristic(fieldLine, d, bounds) ==
    SubItemsScan(d, bounds, getIndent(GetLine(d, fieldLine)), fieldLine + 1)

\* the keys under fieldPath: from the parse tree, or by the scan when the parse throws
SubItemsIn(fieldPath, d, bounds, parsed) ==
    IF parsed.ok THEN getExistingSubItemsFromYAMLByPath(parsed.entries, fieldPath)
    ELSE With(findFieldLineInEditor(fieldPath, d, bounds),
              LAMBDA fieldLineNum :
                 IF fieldLineNum = -1 THEN << >>
                 ELSE getExistingSubItemsHeuristic(fieldLineNum, d, bounds))

getExistingSubItemsByPath(fieldPath, d) ==
    With(getFrontmatterBounds(d),
         LAMBDA bounds :
            IF ~bounds.ok THEN << >>
            ELSE SubItemsIn(fieldPath, d, bounds, YamlLoad(BlockLines(d, bounds))))

(***************************************************************************)
(* Rules and the two rule matchers.                                        *)
(***************************************************************************)
\* ValueConfig (types.ts); type "absent" stands for a rule without valueConfig
\* ValidationConfig (types.ts) with every field undefined; pattern "" is no pattern
NoValidation ==
    [required |-> FALSE, customErrorMessage |-> << >>,
     hasMin |-> FALSE, min |-> 0, hasMax |-> FALSE, max |-> 0, allowDecimal |-> TRUE,
     hasMinLength |-> FALSE, minLength |-> 0, hasMaxLength |-> FALSE, maxLength |-> 0,
     pattern |-> ""]

\* ValueConfig (types.ts); type "absent" stands for a rule without valueConfig,
\* units for the unit names of its UnitConfig list
NoValueConfig ==
    [type |-> "absent", units |-> << >>, defaultUnit |-> << >>, unitBehavior |-> "optional",
     validation |-> NoValidation]

NoRule == [id |-> 0, enabled |-> FALSE, parentField |-> << >>, fieldPath |-> << >>,
           sourceType |-> "inline", options |-> << >>, valueConfig |-> NoValueConfig,
           multiSelect |-> FALSE]

\* a FieldRule as the rule editor saves it: fieldPath = parentField[.childField]
MkRule(id, fieldPath, enabled, multiSelect, options, valueConfig) ==
    [id |-> id, enabled |-> enabled, parentField |-> Split(fieldPath, ".")[1],
     fieldPath |-> fieldPath, sourceType |-> "inline", options |-> options,
     valueConfig |-> valueConfig, multiSelect |-> multiSelect]

\* the first element of rs that satisfies the test, as `for (const rule of ...) if (...) return rule`
RECURSIVE FirstRule(_, _, _)
FirstRule(rs, i, hits) ==
    IF i > Len(rs) THEN NoRule
    ELSE IF i \in hits THEN rs[i]
    ELSE FirstRule(rs, i + 1, hits)

\* a matcher that takes the first rule that is equal to or an ancestor of the path
findMatchingRule_onePass(rs, fieldPath) ==
    FirstRule(rs, 1, { i \in 1..Len(rs) : \/ rs[i].fieldPath = fieldPath
                                          \/ StartsWith(fieldPath, rs[i].fieldPath \o DOT) })

\* FrontmatterSuggester.findMatchingRule
findMatchingRule(rs, fieldPath) ==
    LET exact == FirstRule(rs, 1, { i \in 1..Len(rs) : rs[i].fieldPath = fieldPath })
        under == FirstRule(rs, 1, { i \in 1..Len(rs) : StartsWith(fieldPath, rs[i].fieldPath \o DOT) })
    IN IF exact # NoRule THEN exact ELSE under

\* ValueValidatorExtension.findMatchingRule
findMatchingRuleV(rs, fieldPath) ==
    LET exact == FirstRule(rs, 1, { i \in 1..Len(rs) : rs[i].fieldPath = fieldPath })
        under == FirstRule(rs, 1, { i \in 1..Len(rs) : StartsWith(fieldPath, rs[i].fieldPath \o DOT) })
    IN IF exact # NoRule THEN exact ELSE under

(***************************************************************************)
(* FrontmatterSuggester.                                                   *)
(***************************************************************************)
\* DEFAULT_SETTINGS.globalSettings
maxSuggestions == 10
caseSensitive == FALSE

\* OptionItem (types.ts); type "absent" stands for an option without a type
MkOption(key, description) ==
    [key |-> key, description |-> description, type |-> "absent", units |-> << >>, enumValues |-> << >>]

MkTypedOption(key, type, units, enumValues) ==
    [key |-> key, description |-> << >>, type |-> type, units |-> units, enumValues |-> enumValues]

\* String.prototype.toLowerCase on the letters of the model
UpperLetters == << "A", "B", "E", "F", "L", "N", "O", "R", "S", "T", "U", "Y" >>
LowerLetters == << "a", "b", "e", "f", "l", "n", "o", "r", "s", "t", "u", "y" >>

LowerChar(c) ==
    IF \E i \in 1..Len(UpperLetters) : UpperLetters[i] = c
    THEN LowerLetters[CHOOSE i \in 1..Len(UpperLetters) : UpperLetters[i] = c]
    ELSE c

ToLowerCase(s) == [i \in 1..Len(s) |-> LowerChar(s[i])]

Min(a, b) == IF a <= b THEN a ELSE b
Max(a, b) == IF a >= b THEN a ELSE b

\* String.prototype.substring(a, b): arguments clamped to the string and swapped when a > b
JsSubstring(s, a, b) ==
    LET a1 == Max(0, Min(a, Len(s)))
        b1 == Max(0, Min(b, Len(s)))
    IN SubSeq(s, Min(a1, b1) + 1, Max(a1, b1))

calculatePathDepth(fieldPath) ==
    LET parts == Split(fieldPath, ".")
    IN Cardinality({ i \in 1..Len(parts) : Len(parts[i]) > 0 })

\* rule.fieldPath || rule.parentField
RuleFieldPath(rule) == IF Len(rule.fieldPath) > 0 THEN rule.fieldPath ELSE rule.parentField

generateParentFieldSuggestions(rule, d) ==
    LET existingItems == getExistingSubItemsByPath(RuleFieldPath(rule), d)
        keep == { i \in 1..Len(rule.options) : rule.options[i].key \notin Range(existingItems) }
    IN IF rule.sourceType = "inline" THEN SelectSeqIdx(rule.options, keep, 1) ELSE << >>

\* the suggestions of the rule at whatever depth the cursor is
generateSuggestions_anyDepth(rule, cur, d) ==
    With(getCurrentFieldPath(cur, d),
         LAMBDA fieldContext :
            IF ~fieldContext.ok THEN << >>
            ELSE generateParentFieldSuggestions(rule, d))

generateSuggestions(rule, cur, d) ==
    With(getCurrentFieldPath(cur, d),
         LAMBDA fieldContext :
            IF ~fieldContext.ok THEN << >>
            ELSE IF calculatePathDepth(fieldContext.path) = calculatePathDepth(RuleFieldPath(rule))
                 THEN generateParentFieldSuggestions(rule, d)
                 ELSE << >>)

filterSuggestions(suggestions, query) ==
    LET normalizedQuery == IF caseSensitive THEN query ELSE ToLowerCase(query)
        keyOf(o) == IF caseSensitive THEN o.key ELSE ToLowerCase(o.key)
        descOf(o) == IF caseSensitive THEN o.description ELSE ToLowerCase(o.description)
        keep == { i \in 1..Len(suggestions) :
                    \/ Includes(keyOf(suggestions[i]), normalizedQuery)
                    \/ Includes(descOf(suggestions[i]), normalizedQuery) }
    IN SelectSeqIdx(suggestions, keep, 1)

RECURSIVE SkipSpaces(_, _)
\* while (startCh < currentLine.length && currentLine[startCh] === ' ') startCh++
SkipSpaces(line, startCh) ==
    IF startCh < Len(line) /\ line[startCh + 1] = " " THEN SkipSpaces(line, startCh + 1) ELSE startCh

NoTrigger == [ok |-> FALSE, line |-> 0, startCh |-> 0, query |-> << >>]

\* the trigger info: start at startCh, end at the cursor, the query between them
TriggerInfo(cur, currentLine, startCh) ==
    [ok |-> TRUE, line |-> cur.line, startCh |-> startCh,
     query |-> JsSubstring(currentLine, startCh, cur.ch)]

\* the start position: after the colon and the spaces of a field line, else the cursor
TriggerStart(cur, currentLine, fieldContext, fieldName) ==
    TriggerInfo(cur, currentLine,
                IF fieldName # NoName
                THEN SkipSpaces(currentLine, fieldContext.indent + Len(fieldName) + 1)
                ELSE cur.ch)

onTrigger(cur, d, rs) ==
    IF ~isInFrontmatter(cur, d) THEN NoTrigger
    ELSE With(getCurrentFieldPath(cur, d),
              LAMBDA fieldContext :
                 IF ~fieldContext.ok THEN NoTrigger
                 ELSE With(findMatchingRule(rs, fieldContext.path),
                           LAMBDA matchingRule :
                              IF matchingRule = NoRule \/ ~matchingRule.enabled THEN NoTrigger
                              ELSE IF Len(generateSuggestions(matchingRule, cur, d)) = 0
                                   THEN NoTrigger
                                   ELSE TriggerStart(cur, GetLine(d, cur.line), fieldContext,
                                                     extractFieldName(GetLine(d, cur.line)))))

\* the insertion-ordered Set of selected keys
SetHas(set, key) == key \in Range(set)
SetDelete_all(set, key) == << >>
SetDelete(set, key) == SelectSeqIdx(set, { i \in 1..Len(set) : set[i] # key }, 1)
SetAdd_front(set, key) == IF SetHas(set, key) THEN set ELSE << key >> \o set
SetAdd(set, key) == IF SetHas(set, key) THEN set ELSE Append(set, key)

NoContext == [open |-> FALSE, line |-> 0, startCh |-> 0, query |-> << >>]

\* `return []` before any field is written
Untouched(selected, multi, shown) ==
    [result |-> << >>, selectedItems |-> selected,
     isMultiSelectMode |-> multi, currentSuggestions |-> shown]

\* suggestions.slice(0, maxSuggestions), stored in this.currentSuggestions and returned
Limited(cleared, matchingRule, filtered) ==
    [result |-> SubSeq(filtered, 1, Min(Len(filtered), maxSuggestions)),
     selectedItems |-> cleared,
     isMultiSelectMode |-> matchingRule.multiSelect,
     currentSuggestions |-> SubSeq(filtered, 1, Min(Len(filtered), maxSuggestions))]

\* the part of getSuggestions after the rule is found: the mode, the reset of
\* the selected set, the generated list, its filter and its limit
Suggested(ctx, fieldContext, matchingRule, cleared, shown, suggestions) ==
    IF Len(suggestions) = 0
    THEN [result |-> << >>, selectedItems |-> cleared,
          isMultiSelectMode |-> matchingRule.multiSelect, currentSuggestions |-> shown]
    ELSE Limited(cleared, matchingRule,
                 IF /\ calculatePathDepth(fieldContext.path)
                         = calculatePathDepth(RuleFieldPath(matchingRule))
                    /\ Len(ctx.query) > 0
                    /\ Len(Trim(ctx.query)) > 0
                 THEN filterSuggestions(suggestions, ctx.query)
                 ELSE suggestions)

\* getSuggestions(ctx) with this.context = thisContext, sameObject telling whether
\* ctx is the very object this.context holds: the returned list and the fields
\* the call leaves behind
getSuggestions(thisContext, ctx, sameObject, cur, d, rs, selected, multi, shown) ==
    With(getCurrentFieldPath(cur, d),
         LAMBDA fieldContext :
            IF ~fieldContext.ok THEN Untouched(selected, multi, shown)
            ELSE With(findMatchingRule(rs, fieldContext.path),
                      LAMBDA matchingRule :
                         IF matchingRule = NoRule \/ ~matchingRule.enabled
                         THEN Untouched(selected, multi, shown)
                         ELSE Suggested(ctx, fieldContext, matchingRule,
                                        IF ~thisContext.open \/ ~sameObject
                                        THEN << >> ELSE selected,
                                        shown,
                                        generateSuggestions(matchingRule, cur, d))))

\* editor.replaceRange(text, from, to) within one line; text may hold "\n"
replaceRange(d, text, line, fromCh, toCh) ==
    LET old == GetLine(d, line)
        new == Split(SubSeq(old, 1, fromCh) \o text \o SubSeq(old, toCh + 1, Len(old)), "\n")
    IN SubSeq(d, 1, line) \o new \o SubSeq(d, line + 2, Len(d))

NL == << "\n" >>
COLON_SP == << ":", " " >>

\* the parent-line branch indenting the new keys no deeper than their parent
handleMultiSelection_parentIndent(d, cur, fieldContext, selected) ==
    LET currentLine == GetLine(d, cur.line)
        fieldName == extractFieldName(currentLine)
        selectedArray == selected
        lastKey == selectedArray[Len(selectedArray)]
    IN IF fieldName # NoName
       THEN LET itemIndent == fieldContext.indent
                insertLines == Concat([i \in 1..Len(selectedArray) |->
                                          NL \o Spaces(itemIndent) \o selectedArray[i] \o COLON_SP])
            IN [doc |-> replaceRange(d, insertLines, cur.line, Len(currentLine), Len(currentLine)),
                cursor |-> [line |-> cur.line + Len(selectedArray),
                            ch |-> itemIndent + Len(lastKey) + 2],
                selectedItems |-> << >>]
       ELSE LET itemIndent == IF cur.line > 0 THEN getIndent(currentLine) ELSE fieldContext.indent + 2
                insertLines == Concat([i \in 1..Len(selectedArray) |->
                                          (IF i = 1 THEN << >> ELSE NL)
                                          \o Spaces(itemIndent) \o selectedArray[i] \o COLON_SP])
            IN [doc |-> replaceRange(d, insertLines, cur.line, cur.ch, Len(currentLine)),
                cursor |-> [line |-> cur.line + Len(selectedArray) - 1,
                            ch |-> itemIndent + Len(lastKey) + 2],
                selectedItems |-> << >>]

handleMultiSelection(d, cur, fieldContext, selected) ==
    LET currentLine == GetLine(d, cur.line)
        fieldName == extractFieldName(currentLine)
        selectedArray == selected
        lastKey == selectedArray[Len(selectedArray)]
    IN IF fieldName # NoName
       THEN LET itemIndent == fieldContext.indent + 2
                insertLines == Concat([i \in 1..Len(selectedArray) |->
                                          NL \o Spaces(itemIndent) \o selectedArray[i] \o COLON_SP])
            IN [doc |-> replaceRange(d, insertLines, cur.line, Len(currentLine), Len(currentLine)),
                cursor |-> [line |-> cur.line + Len(selectedArray),
                            ch |-> itemIndent + Len(lastKey) + 2],
                selectedItems |-> << >>]
       ELSE LET itemIndent == IF cur.line > 0 THEN getIndent(currentLine) ELSE fieldContext.indent + 2
                insertLines == Concat([i \in 1..Len(selectedArray) |->
                                          (IF i = 1 THEN << >> ELSE NL)
                                          \o Spaces(itemIndent) \o selectedArray[i] \o COLON_SP])
            IN [doc |-> replaceRange(d, insertLines, cur.line, cur.ch, Len(currentLine)),
                cursor |-> [line |-> cur.line + Len(selectedArray) - 1,
                            ch |-> itemIndent + Len(lastKey) + 2],
                selectedItems |-> << >>]

\* the parent-line branch leaving the cursor on the parent line
handleParentFieldSelection_cursorStays(key, d, cur, fieldContext) ==
    LET currentLine == GetLine(d, cur.line)
        fieldName == extractFieldName(currentLine)
    IN IF fieldName # NoName
       THEN LET itemIndent == fieldContext.indent + 2
                newLineText == NL \o Spaces(itemIndent) \o key \o COLON_SP
            IN [doc |-> replaceRange(d, newLineText, cur.line, Len(currentLine), Len(currentLine)),
                cursor |-> [line |-> cur.line, ch |-> Len(currentLine)]]
       ELSE LET itemIndent == IF cur.line > 0 THEN getIndent(currentLine) ELSE fieldContext.indent + 2
                insertText == Spaces(itemIndent) \o key \o COLON_SP
            IN [doc |-> replaceRange(d, insertText, cur.line, cur.ch, Len(currentLine)),
                cursor |-> [line |-> cur.line, ch |-> cur.ch + Len(insertText)]]

handleParentFieldSelection(key, d, cur, fieldContext) ==
    LET currentLine == GetLine(d, cur.line)
        fieldName == extractFieldName(currentLine)
    IN IF fieldName # NoName
       THEN LET itemIndent == fieldContext.indent + 2
                newLineText == NL \o Spaces(itemIndent) \o key \o COLON_SP
            IN [doc |-> replaceRange(d, newLineText, cur.line, Len(currentLine), Len(currentLine)),
                cursor |-> [line |-> cur.line + 1, ch |-> itemIndent + Len(key) + 2]]
       ELSE LET itemIndent == IF cur.line > 0 THEN getIndent(currentLine) ELSE fieldContext.indent + 2
                insertText == Spaces(itemIndent) \o key \o COLON_SP
            IN [doc |-> replaceRange(d, insertText, cur.line, cur.ch, Len(currentLine)),
                cursor |-> [line |-> cur.line, ch |-> cur.ch + Len(insertText)]]

\* what close() leaves when it inserted the selected set, and when it did not
Flushed(after) ==
    [flushed |-> TRUE, doc |-> after.doc, cursor |-> after.cursor,
     selectedItems |-> after.selectedItems]

Unflushed(d, cur, selected) ==
    [flushed |-> FALSE, doc |-> d, cursor |-> cur, selectedItems |-> selected]

\* close(): the flush of the selected set, then super.close()
close(thisContext, d, cur, selected, multi) ==
    IF multi /\ Len(selected) > 0 /\ thisContext.open
    THEN With(getCurrentFieldPath(cur, d),
              LAMBDA fieldContext :
                 IF fieldContext.ok
                 THEN Flushed(handleMultiSelection(d, cur, fieldContext, selected))
                 ELSE Unflushed(d, cur, selected))
    ELSE Unflushed(d, cur, selected)

(***************************************************************************)
(* The suggestion session.  The user moves the cursor, confirms entries of *)
(* the list (Enter) and presses Esc.  The host (EditorSuggest) reacts to   *)
(* every editor event before it delivers the next key: it calls onTrigger, *)
(* stores the result as this.context and calls getSuggestions on it, or    *)
(* calls close() when there is nothing to show.                            *)
(***************************************************************************)
LastNone ==
    [op |-> "none", closed |-> FALSE, inserted |-> FALSE, mode |-> "none", keys |-> << >>,
     line |-> 0, ch |-> 0, indent |-> 0, path |-> << >>, onField |-> FALSE,
     origins |-> << >>, pending |-> << >>, log |-> << >>, docBefore |-> << >>]

\* what an insertion made at cursor cur of document d, in context fc, leaves in `last`
LastInsert(op, mode, keys, d, cur, fc, origins, pending, log, closed) ==
    [op |-> op, closed |-> closed, inserted |-> TRUE, mode |-> mode, keys |-> keys,
     line |-> cur.line, ch |-> cur.ch, indent |-> fc.indent, path |-> fc.path,
     onField |-> extractFieldName(GetLine(d, cur.line)) # NoName,
     origins |-> origins, pending |-> pending, log |-> log, docBefore |-> d]

QuietSuggester ==
    /\ selectedItems = << >>
    /\ isMultiSelectMode = FALSE
    /\ currentSuggestions = << >>
    /\ context = NoContext
    /\ toggleLog = << >>
    /\ toggleOrigin = << >>
    /\ last = LastNone

\* no timeout is pending; cancelled tells that the last validateWithDebounce
\* cleared a pending timeout of its key
NoTimers == [pending |-> [k \in 0..(MaxLines - 1) |-> 0], cancelled |-> FALSE]

QuietValidator ==
    /\ validationTimeouts = {}
    /\ timers = NoTimers
    /\ lastValidatedContent = [k \in {} |-> << >>]
    /\ errors = << >>
    /\ passCount = 0
    /\ lastPassContent = << >>
    /\ lastFire = [editPending |-> FALSE, editLine |-> 0, settled |-> FALSE,
                   repeatedPass |-> FALSE]

\* nothing resolved and nothing validated yet
NoResolution ==
    [done |-> FALSE, yaml |-> NoFieldContext, heuristic |-> NoFieldContext, parsed |-> FALSE,
     context |-> NoFieldContext, rule |-> NoRule, existing |-> << >>, suggestions |-> << >>,
     trigger |-> NoTrigger]

NoVerdict ==
    [done |-> FALSE, value |-> << >>, option |-> MkOption(<< >>, << >>),
     config |-> NoValueConfig,
     byOption |-> [valid |-> TRUE, error |-> << >>, suggestion |-> << >>],
     byConfig |-> [valid |-> TRUE, error |-> << >>, suggestion |-> << >>]]

QuietPure ==
    /\ resolution = NoResolution
    /\ verdict = NoVerdict

\* the editor and the suggester's fields as one value
Session ==
    [doc |-> doc, cursor |-> cursor, selectedItems |-> selectedItems,
     isMultiSelectMode |-> isMultiSelectMode, currentSuggestions |-> currentSuggestions,
     context |-> context, toggleLog |-> toggleLog, toggleOrigin |-> toggleOrigin,
     last |-> last, event |-> FALSE]

\* session s after its close() returned r, as the step `op`; event tells that
\* the flush edited the text
Closed(s, op, r) ==
    [s EXCEPT !.doc = r.doc,
              !.cursor = r.cursor,
              !.selectedItems = r.selectedItems,
              !.context = NoContext,
              !.toggleLog = IF r.flushed THEN << >> ELSE s.toggleLog,
              !.toggleOrigin = IF r.flushed THEN << >> ELSE s.toggleOrigin,
              !.event = r.flushed,
              !.last = IF r.flushed
                       THEN LastInsert(op, "multi", s.selectedItems, s.doc, s.cursor,
                                       getCurrentFieldPath(s.cursor, s.doc),
                                       s.toggleOrigin, s.selectedItems, s.toggleLog, TRUE)
                       ELSE [LastNone EXCEPT !.op = op, !.closed = TRUE,
                                             !.mode = IF s.isMultiSelectMode
                                                      THEN "multi" ELSE "single",
                                             !.pending = s.selectedItems]]

CloseOn(s, op) ==
    Closed(s, op, close(s.context, s.doc, s.cursor, s.selectedItems, s.isMultiSelectMode))

\* session s with this.context = ctx after getSuggestions(ctx) returned g
Displayed(s, ctx, g) ==
    [s EXCEPT !.context = ctx,
              !.selectedItems = g.selectedItems,
              !.isMultiSelectMode = g.isMultiSelectMode,
              !.currentSuggestions = g.currentSuggestions,
              !.toggleLog = IF Len(g.selectedItems) = 0 THEN << >> ELSE s.toggleLog,
              !.toggleOrigin = IF Len(g.selectedItems) = 0 THEN << >> ELSE s.toggleOrigin,
              !.event = FALSE]

\* the host shows the list getSuggestions returned, or closes on an empty one
Listed(s, ctx, g) ==
    With(Displayed(s, ctx, g),
         LAMBDA opened : IF Len(g.result) = 0 THEN CloseOn(opened, "hostclose") ELSE opened)

\* the host stores the trigger info as this.context and asks for the list
Opened(s, rs, ctx) ==
    Listed(s, ctx, getSuggestions(ctx, ctx, TRUE, s.cursor, s.doc, rs, s.selectedItems,
                                  s.isMultiSelectMode, s.currentSuggestions))

Triggered(s, rs, t) ==
    IF ~t.ok
    THEN IF s.context.open THEN CloseOn(s, "hostclose") ELSE [s EXCEPT !.event = FALSE]
    ELSE Opened(s, rs, [open |-> TRUE, line |-> t.line, startCh |-> t.startCh,
                        query |-> t.query])

\* one run of the host's trigger on session s
HostTrigger(s, rs) == Triggered(s, rs, onTrigger(s.cursor, s.doc, rs))

AfterFlush(s1, s2) == IF s2.last.inserted THEN s2 ELSE [s2 EXCEPT !.last = s1.last]

\* the host's reaction to an editor event: the trigger, run again when its
\* own close() edited the text
HostReact(s, rs) ==
    With(HostTrigger(s, rs),
         LAMBDA s1 : IF s1.event
                     THEN With(HostTrigger(s1, rs), LAMBDA s2 : AfterFlush(s1, s2))
                     ELSE s1)

\* the reaction to the edit a step made; `last` keeps telling of the step's
\* own insertion unless the reaction inserts in its turn
AfterEdit(s, rs) ==
    IF ~s.event THEN s
    ELSE With(HostReact(s, rs),
              LAMBDA s1 : IF s1.last.inserted THEN s1 ELSE [s1 EXCEPT !.last = s.last])

Becomes(s) ==
    /\ Len(s.doc) <= MaxLines
    /\ doc' = s.doc
    /\ cursor' = s.cursor
    /\ selectedItems' = s.selectedItems
    /\ isMultiSelectMode' = s.isMultiSelectMode
    /\ currentSuggestions' = s.currentSuggestions
    /\ context' = s.context
    /\ toggleLog' = s.toggleLog
    /\ toggleOrigin' = s.toggleOrigin
    /\ last' = s.last

MoveCursor(l, c) ==
    /\ l \in 0..(Len(doc) - 1)
    /\ c \in { 0, Len(GetLine(doc, l)) }
    /\ cursor # [line |-> l, ch |-> c]
    /\ Becomes(HostReact([Session EXCEPT !.cursor = [line |-> l, ch |-> c], !.last = LastNone], rules))
    /\ UNCHANGED << rules, minMatchLength, validatorVars, matchVars, pureVars >>

\* a toggle of key in the selected set of session s
Toggled(s, key, fieldContext, at) ==
    [s EXCEPT !.selectedItems = IF SetHas(s.selectedItems, key)
                                THEN SetDelete(s.selectedItems, key)
                                ELSE SetAdd(s.selectedItems, key),
              !.toggleLog = Append(s.toggleLog, key),
              !.toggleOrigin =
                  IF at # {}
                  THEN SelectSeqIdx(s.toggleOrigin, (1..Len(s.toggleOrigin)) \ at, 1)
                  ELSE Append(s.toggleOrigin,
                              [line |-> s.cursor.line, path |-> fieldContext.path]),
              !.last = [LastNone EXCEPT !.op = "toggle", !.mode = "multi",
                                        !.keys = << key >>, !.pending = s.selectedItems]]

\* session s after handleParentFieldSelection returned r
Inserted(s, key, fieldContext, r) ==
    [s EXCEPT !.doc = r.doc,
              !.cursor = r.cursor,
              !.event = TRUE,
              !.last = LastInsert("select", "single", << key >>, s.doc, s.cursor,
                                  fieldContext, << >>, s.selectedItems, << >>, FALSE)]

\* selectSuggestion(suggestion) on session s
selectSuggestion(s, suggestion) ==
    With(getCurrentFieldPath(s.cursor, s.doc),
         LAMBDA fieldContext :
            IF ~fieldContext.ok THEN [s EXCEPT !.last = LastNone]
            ELSE IF s.isMultiSelectMode
            THEN Toggled(s, suggestion.key, fieldContext,
                         { j \in 1..Len(s.selectedItems) : s.selectedItems[j] = suggestion.key })
            ELSE Inserted(s, suggestion.key, fieldContext,
                          handleParentFieldSelection(suggestion.key, s.doc, s.cursor,
                                                     fieldContext)))

\* Enter on the i-th entry of the list, at most maxToggles toggles on one selected set
SelectUpTo(i, maxToggles) ==
    /\ context.open
    /\ i \in 1..Len(currentSuggestions)
    /\ isMultiSelectMode => Len(toggleLog) < maxToggles
    /\ LET s1 == selectSuggestion(Session, currentSuggestions[i])
       IN Becomes(AfterEdit(s1, rules))
    /\ UNCHANGED << rules, minMatchLength, validatorVars, matchVars, pureVars >>

Select(i) == SelectUpTo(i, MaxSessionToggles)

\* Esc: the explicit close of the open suggestion list
Close ==
    /\ context.open
    /\ LET s1 == CloseOn(Session, "close")
       IN Becomes(AfterEdit(s1, rules))
    /\ UNCHANGED << rules, minMatchLength, validatorVars, matchVars, pureVars >>

KeyA == << "a" >>
KeyB == << "b" >>
LineA == << "A", ":" >>
LineB == << "B", ":" >>
LineSubB == << " ", " ", "B", ":", " ", "a" >>
LineBlank2 == << " ", " " >>

\* ---       ---        ---
\* A:        A:         A:
\* B:        (empty)      B: a
\* ---       ---        (two spaces)
\*                      ---
DocFlat == << DELIM, LineA, LineB, DELIM >>
DocBlank == << DELIM, LineA, << >>, DELIM >>
DocNested == << DELIM, LineA, LineSubB, LineBlank2, DELIM >>
DocParent == << DELIM, LineA, DELIM >>

TwoOptions == << MkOption(KeyA, << >>), MkOption(KeyB, << >>) >>

RulesMulti ==
    << MkRule(1, << "A" >>, TRUE, TRUE, TwoOptions, NoValueConfig),
       MkRule(2, << "B" >>, TRUE, TRUE, TwoOptions, NoValueConfig) >>

RulesMultiOff ==
    << MkRule(1, << "A" >>, TRUE, TRUE, TwoOptions, NoValueConfig),
       MkRule(2, << "B" >>, FALSE, TRUE, TwoOptions, NoValueConfig) >>

RulesSingle ==
    << MkRule(1, << "A" >>, TRUE, FALSE, TwoOptions, NoValueConfig),
       MkRule(2, << "B" >>, TRUE, FALSE, TwoOptions, NoValueConfig) >>

RulesNested ==
    << MkRule(1, << "A", ".", "B" >>, TRUE, TRUE, TwoOptions, NoValueConfig),
       MkRule(2, << "A" >>, TRUE, FALSE, TwoOptions, NoValueConfig) >>

\* the configurations explored: the text, the rules, settings.globalSettings.minMatchLength
SuggestConfigs ==
    { << DocFlat, RulesMulti, 1 >>, << DocFlat, RulesMultiOff, 0 >>, << DocBlank, RulesMulti, 0 >>,
      << DocBlank, RulesSingle, 1 >>, << DocNested, RulesNested, 0 >>,
      << DocParent, RulesMulti, 0 >>, << DocParent, RulesSingle, 0 >> }

SuggestInit ==
    /\ \E cfg \in SuggestConfigs : doc = cfg[1] /\ rules = cfg[2] /\ minMatchLength = cfg[3]
    /\ cursor = [line |-> 0, ch |-> 0]
    /\ QuietSuggester
    /\ QuietValidator
    /\ matchPath = << >>
    /\ matchedS = NoRule
    /\ matchedV = NoRule
    /\ QuietPure

SuggestNext ==
    \/ \E l \in 0..(MaxLines - 1), c \in 0..MaxCol : MoveCursor(l, c)
    \/ \E i \in 1..2 : Select(i)
    \/ Close

SpecSuggest == SuggestInit /\ [][SuggestNext]_vars

\* the toggling of one list at length: one parent line, one multi-select rule
ToggleConfigs == { << DocParent, RulesMulti, 0 >>, << DocBlank, RulesMulti, 0 >> }

ToggleInit ==
    /\ \E cfg \in ToggleConfigs : doc = cfg[1] /\ rules = cfg[2] /\ minMatchLength = cfg[3]
    /\ cursor = [line |-> 0, ch |-> 0]
    /\ QuietSuggester
    /\ QuietValidator
    /\ matchPath = << >>
    /\ matchedS = NoRule
    /\ matchedV = NoRule
    /\ QuietPure

ToggleNext ==
    \/ \E l \in 0..(MaxLines - 1), c \in 0..MaxCol : MoveCursor(l, c)
    \/ \E i \in 1..2 : SelectUpTo(i, MaxToggles)
    \/ Close

SpecToggle == ToggleInit /\ [][ToggleNext]_vars

\* single-select lists reached after a multi-select one in the same text
\* ---
\* A:
\*   B:
\* ---
LineSubBOpen == << " ", " ", "B", ":" >>
DocChild == << DELIM, LineA, LineSubBOpen, DELIM >>

\* a disabled rule for "A" configured before an enabled one for "A"
RulesShadowed ==
    << MkRule(1, << "A" >>, FALSE, FALSE, TwoOptions, NoValueConfig),
       MkRule(2, << "A" >>, TRUE, FALSE, TwoOptions, NoValueConfig) >>

ConfirmConfigs ==
    { << DocChild, RulesNested, 0 >>, << DocParent, RulesSingle, 0 >>,
      << DocBlank, RulesSingle, 0 >>, << DocParent, RulesShadowed, 0 >> }

ConfirmInit ==
    /\ \E cfg \in ConfirmConfigs : doc = cfg[1] /\ rules = cfg[2] /\ minMatchLength = cfg[3]
    /\ cursor = [line |-> 0, ch |-> 0]
    /\ QuietSuggester
    /\ QuietValidator
    /\ matchPath = << >>
    /\ matchedS = NoRule
    /\ matchedV = NoRule
    /\ QuietPure

SpecConfirm == ConfirmInit /\ [][SuggestNext]_vars

(***************************************************************************)
(* Properties of the suggestion session                                    *)
(***************************************************************************)
\* the text of the lines an insertion of keys at indentation ind writes
InsertedLines(keys, ind) ==
    [i \in 1..Len(keys) |-> Spaces(ind) \o keys[i] \o COLON_SP]

\* where the cursor is said to be left: on the line of the last key, after its ": "
CursorAfter(line, keys, ind) ==
    [line |-> line, ch |-> ind + Len(keys[Len(keys)]) + 2]

\* the context (cursor line and resolved path) the cursor is in
HereContext == [line |-> cursor.line, path |-> getCurrentFieldPath(cursor, doc).path]

\* C3: every key a multi-select flush writes was toggled on in the trigger
\* context (cursor line and resolved path) in which the flush writes it, and
\* while a list is open every selected key was toggled on in the context the
\* list is open for: a new context starts with an empty selected-set.
C3_NoCrossContextLeak ==
    /\ (last.inserted /\ last.mode = "multi")
          => \A i \in 1..Len(last.origins) :
                last.origins[i] = [line |-> last.line, path |-> last.path]
    /\ context.open
          => \A i \in 1..Len(toggleOrigin) : toggleOrigin[i] = HereContext

\* C4: a close in MULTI mode flushes the selected-set: a non-empty set is
\* inserted key by key in the set's order, an empty set leaves the text as it
\* was, and after the close the selected-set is empty.
C4_CloseFlushesAndClears ==
    (last.closed /\ last.mode = "multi")
       => /\ last.pending # << >> => (last.inserted /\ last.keys = last.pending)
          /\ last.pending = << >> => ~last.inserted
          /\ selectedItems = << >>

\* the keys toggled on an odd number of times in log, by the place of their last toggle
LastAt(log, key) == CHOOSE i \in 1..Len(log) : log[i] = key /\ \A j \in (i + 1)..Len(log) : log[j] # key
IsOn(log, key) == Cardinality({ i \in 1..Len(log) : log[i] = key }) % 2 = 1
ToggleOnOrder(log) ==
    LET on == { i \in 1..Len(log) : IsOn(log, log[i]) /\ LastAt(log, log[i]) = i }
    IN SelectSeqIdx(log, on, 1)

\* C5: the keys a multi-select flush writes are the keys that are on, in the
\* order of their last toggle-on (on a, on b, off a, on a gives [b, a]).
C5_FlushInToggleOnOrder ==
    (last.inserted /\ last.mode = "multi") => last.keys = ToggleOnOrder(last.log)

C5_Witness ==
    /\ last.inserted
    /\ last.mode = "multi"
    /\ last.log = << KeyA, KeyB, KeyA, KeyA >>
    /\ last.keys = << KeyB, KeyA >>

\* C6: on a placeholder line an insertion of k1..kn replaces the span from the
\* cursor to the end of the line with, per key, parentIndent+2 spaces, the key
\* and ": ", later keys on lines of their own; the cursor ends on line
\* original + (n - 1) at column (parentIndent+2) + length(kn) + 2.
C6_PlaceholderInsertion ==
    (last.inserted /\ ~last.onField)
       => LET before == last.docBefore
              n == Len(last.keys)
              written == InsertedLines(last.keys, last.indent + 2)
              kept == SubSeq(before[last.line + 1], 1, last.ch)
          IN /\ doc = SubSeq(before, 1, last.line) \o << kept \o written[1] >>
                         \o SubSeq(written, 2, n)
                         \o SubSeq(before, last.line + 2, Len(before))
             /\ cursor = CursorAfter(last.line + (n - 1), last.keys, last.indent + 2)

C10_NoListBelowMinMatchLength ==
    (minMatchLength > 0 /\ Len(context.query) < minMatchLength)
       => ~(context.open /\ Len(currentSuggestions) > 0)

\* the text after one insertion of key at the cursor: a new line below the
\* cursor's line, or the rest of the cursor's line replaced
OneInsertion(before, cur, key, after) ==
    \E ind \in 0..MaxCol :
       \/ after = SubSeq(before, 1, cur.line + 1)
                     \o << Spaces(ind) \o key \o COLON_SP >>
                     \o SubSeq(before, cur.line + 2, Len(before))
       \/ after = [before EXCEPT ![cur.line + 1] =
                      SubSeq(@, 1, cur.ch) \o Spaces(ind) \o key \o COLON_SP]

\* C13: in SINGLE mode Enter on a suggestion makes exactly one insertion, of
\* that suggestion's key, and leaves the selected-set empty; the close that
\* follows inserts nothing more.
C13_SingleConfirmInsertsOnce ==
    [][ /\ \A i \in 1..2 :
              (~isMultiSelectMode /\ Select(i))
                 => /\ OneInsertion(doc, cursor, currentSuggestions[i].key, doc')
                    /\ selectedItems' = << >>
        /\ (last.op = "select" /\ last.mode = "single" /\ Close) => doc' = doc ]_vars

\* C14: in MULTI mode Enter on a suggestion flips the membership of that
\* suggestion's key in the selected-set and nothing else: the text, the cursor
\* and the membership of every other key stay as they were.
C14_ToggleChangesOneMembership ==
    [][ \A i \in 1..2 :
           (isMultiSelectMode /\ SelectUpTo(i, MaxToggles))
              => /\ doc' = doc
                 /\ cursor' = cursor
                 /\ SetHas(selectedItems', currentSuggestions[i].key)
                       <=> ~SetHas(selectedItems, currentSuggestions[i].key)
                 /\ \A k \in (Range(selectedItems) \cup Range(selectedItems'))
                                \ { currentSuggestions[i].key } :
                       SetHas(selectedItems', k) <=> SetHas(selectedItems, k) ]_vars

\* a key toggled off while another key stays selected
C14_Witness ==
    /\ last.op = "toggle"
    /\ last.keys = << KeyA >>
    /\ last.pending = << KeyA, KeyB >>
    /\ selectedItems = << KeyB >>
    /\ doc = DocParent
    /\ cursor = [line |-> 1, ch |-> 2]

(***************************************************************************)
(* The rule matcher on its own: rule lists and paths drawn from small      *)
(* sets, both matchers applied to the same input.                          *)
(***************************************************************************)
PathA == << "A" >>
PathAB == << "A", ".", "B" >>
PathABc == << "A", ".", "B", ".", "c" >>
PathAx == << "A", "x" >>
PathB == << "B" >>

MatchRulePaths == { PathA, PathAB, PathABc, PathAx }
MatchQueries == { PathA, PathAB, PathABc, PathAx, PathB }

MatchRuleLists ==
    UNION { { [i \in 1..n |-> MkRule(i, f[i][1], f[i][2], FALSE, << >>, NoValueConfig)] :
                f \in [1..n -> MatchRulePaths \X BOOLEAN] } : n \in 0..MaxRules }

MatchInit ==
    /\ rules \in MatchRuleLists
    /\ matchPath = << >>
    /\ matchedS = NoRule
    /\ matchedV = NoRule
    /\ QuietPure
    /\ doc = << DELIM, DELIM >>
    /\ cursor = [line |-> 0, ch |-> 0]
    /\ minMatchLength = 0
    /\ QuietSuggester
    /\ QuietValidator

\* the suggestion path and the validation driver look the same path up
Match(p) ==
    /\ matchPath' = p
    /\ matchedS' = findMatchingRule(rules, p)
    /\ matchedV' = findMatchingRuleV(rules, p)
    /\ UNCHANGED << doc, cursor, rules, minMatchLength, suggestVars, validatorVars, pureVars >>

MatchNext == \E p \in MatchQueries : Match(p)

SpecMatch == MatchInit /\ [][MatchNext]_vars

Exact(rs, p) == { i \in 1..Len(rs) : rs[i].fieldPath = p }
Under(rs, p) == { i \in 1..Len(rs) : StartsWith(p, rs[i].fieldPath \o DOT) }

\* C1: with one rule for "A" and one for "A.B" in either order (none for
\* "A.B.c"), matching "A.B.c" returns the "A.B" rule.
C1_MostSpecificPrefixWins ==
    ( /\ matchPath = PathABc
      /\ Len(rules) = 2
      /\ { rules[1].fieldPath, rules[2].fieldPath } = { PathA, PathAB } )
    => matchedS.fieldPath = PathAB /\ matchedV.fieldPath = PathAB

\* C2: the matcher returns the first rule in configured order whose path
\* equals the query; failing that the first rule whose path followed by "."
\* is a prefix of the query; failing that nothing.  Disabled rules are
\* returned like enabled ones, and both matchers agree.
C2_FirstExactThenFirstPrefix ==
    matchPath # << >> =>
        /\ Exact(rules, matchPath) # {} => matchedS = rules[Least(Exact(rules, matchPath))]
        /\ Exact(rules, matchPath) = {} /\ Under(rules, matchPath) # {}
              => matchedS = rules[Least(Under(rules, matchPath))]
        /\ Exact(rules, matchPath) = {} /\ Under(rules, matchPath) = {} => matchedS = NoRule
        /\ matchedV = matchedS

\* an exact rule declared after an ancestor rule is found, although disabled
C2_Witness ==
    /\ matchPath = PathABc
    /\ Len(rules) = 2
    /\ rules[1].fieldPath = PathA
    /\ rules[2].fieldPath = PathABc
    /\ ~rules[2].enabled
    /\ matchedS = rules[2]
    /\ matchedV = rules[2]

(***************************************************************************)
(* The resolver and the suggestion engine on their own: texts built from a *)
(* small set of lines, the cursor on any line, one rule with two options.  *)
(***************************************************************************)
MaxInterior == 3

LineSubA1 == << " ", " ", "a", ":", " ", "1" >>
LineSubBKey == << " ", " ", "b", ":" >>
LineDeepA == << " ", " ", " ", " ", "a", ":" >>
LineTightA == << " ", " ", "a", ":", "1" >>
LineTyped == << " ", " ", "r" >>

\* the lines between the delimiters
InteriorLines ==
    { LineA, LineB, LineSubA1, LineSubBKey, LineDeepA, LineTightA, LineTyped, LineBlank2, << >> }

\* texts with and without an opening and a closing delimiter
ResolveDocs ==
    UNION { { << first >> \o body \o closing :
                first \in { DELIM, LineA },
                body \in [1..n -> InteriorLines],
                closing \in { << DELIM >>, << >> } } : n \in 0..MaxInterior }

PathAa == << "A", ".", "a" >>

\* one rule for "A", or one for "A.a", with the options a and b
ResolveRuleLists ==
    { << MkRule(1, PathA, TRUE, FALSE, TwoOptions, NoValueConfig) >>,
      << MkRule(1, PathAa, TRUE, FALSE, TwoOptions, NoValueConfig) >> }

ResolveInit ==
    /\ doc \in ResolveDocs
    /\ rules \in ResolveRuleLists
    /\ cursor = [line |-> 0, ch |-> 0]
    /\ minMatchLength = 0
    /\ QuietSuggester
    /\ QuietValidator
    /\ matchPath = << >>
    /\ matchedS = NoRule
    /\ matchedV = NoRule
    /\ QuietPure

\* what the suggester computes for the rule found for the resolved path
ResolvedRule(d, cur, rs, bounds, fieldContext, rule) ==
    [done |-> TRUE,
     yaml |-> IF bounds.ok /\ isInFrontmatter(cur, d)
              THEN getFieldPathFromYAML(d, cur, bounds.start + 1) ELSE NoFieldContext,
     heuristic |-> IF bounds.ok /\ isInFrontmatter(cur, d)
                   THEN getCurrentFieldPathHeuristic(d, cur, bounds) ELSE NoFieldContext,
     parsed |-> bounds.ok /\ YamlLoad(BlockLines(d, bounds)).ok,
     context |-> fieldContext,
     rule |-> rule,
     existing |-> IF rule = NoRule THEN << >>
                  ELSE getExistingSubItemsByPath(RuleFieldPath(rule), d),
     suggestions |-> IF rule = NoRule THEN << >> ELSE generateSuggestions(rule, cur, d),
     trigger |-> onTrigger(cur, d, rs)]

ResolvedContext(d, cur, rs, bounds, fieldContext) ==
    ResolvedRule(d, cur, rs, bounds, fieldContext,
                 IF fieldContext.ok THEN findMatchingRule(rs, fieldContext.path) ELSE NoRule)

\* the cursor goes to the end of line l: the resolver, the matcher and the
\* suggestion engine are applied there
Resolve(l) ==
    /\ l \in 0..(Len(doc) - 1)
    /\ cursor' = [line |-> l, ch |-> Len(GetLine(doc, l))]
    /\ resolution' = ResolvedContext(doc, cursor', rules, getFrontmatterBounds(doc),
                                     getCurrentFieldPath(cursor', doc))
    /\ UNCHANGED << doc, rules, minMatchLength, suggestVars, validatorVars, matchVars, verdict >>

ResolveNext == \E l \in 0..(MaxLines - 1) : Resolve(l)

SpecResolve == ResolveInit /\ [][ResolveNext]_vars

(***************************************************************************)
(* Properties of the resolver and the suggestion engine                    *)
(***************************************************************************)
\* the keys of the lines of d that the resolver places directly under path
PresentUnder(d, path) ==
    { extractFieldName(GetLine(d, j)) :
        j \in { k \in 0..(Len(d) - 1) :
                  /\ extractFieldName(GetLine(d, k)) # NoName
                  /\ getCurrentFieldPath([line |-> k, ch |-> 0], d).path
                        = path \o DOT \o extractFieldName(GetLine(d, k)) } }

\* s is t with some of its elements left out
IsSubSeq(s, t) == \E keep \in SUBSET (1..Len(t)) : s = SelectSeqIdx(t, keep, 1)

\* C11: no suggestion returned for an inline rule has the key of a line that
\* is present under the rule's declared path in the block, and the
\* suggestions are options of the rule in their declared order.
C11_NoSuggestionOfPresentKey ==
    (resolution.done /\ resolution.rule # NoRule)
       => /\ \A i \in 1..Len(resolution.suggestions) :
                resolution.suggestions[i].key
                   \notin PresentUnder(doc, RuleFieldPath(resolution.rule))
          /\ IsSubSeq(resolution.suggestions, resolution.rule.options)

\* the number of non-empty segments of a dotted path: the places where a
\* segment begins
Depth(path) ==
    Cardinality({ i \in 1..Len(path) : path[i] # "." /\ (i = 1 \/ path[i - 1] = ".") })

\* C12: where the depth of the resolved path differs from the depth of the
\* declared path of the rule that governs it, the suggestion list is empty
\* and no trigger is returned.
C12_DepthGate ==
    ( /\ resolution.done
      /\ resolution.rule # NoRule
      /\ Depth(resolution.context.path) # Depth(RuleFieldPath(resolution.rule)) )
    => /\ resolution.suggestions = << >>
       /\ ~resolution.trigger.ok

\* the cursor on the line of the child a of A, the rule declared for A
C12_Witness ==
    /\ resolution.done
    /\ resolution.rule.fieldPath = PathA
    /\ resolution.context.path = PathAa
    /\ doc = << DELIM, LineA, LineSubA1, DELIM >>
    /\ resolution.suggestions = << >>
    /\ ~resolution.trigger.ok

(***************************************************************************)
(* OptionValidator and ValueValidator.                                     *)
(***************************************************************************)
\* ValidationResult (types.ts); a message is a string in pieces, an absent one is empty
Valid == [valid |-> TRUE, error |-> << >>, suggestion |-> << >>]
Invalid(error, suggestion) == [valid |-> FALSE, error |-> error, suggestion |-> suggestion]

Digits == << "0", "1", "2", "3", "4", "5", "6", "7", "8", "9" >>
IsDigit(c) == c \in Range(Digits)
DigitValue(c) == (CHOOSE i \in 1..10 : Digits[i] = c) - 1

\* the length of the longest run of digits of s that starts after position i
RECURSIVE DigitRun(_, _)
DigitRun(s, i) == IF i < Len(s) /\ IsDigit(s[i + 1]) THEN 1 + DigitRun(s, i + 1) ELSE 0

RECURSIVE Pow10(_)
Pow10(n) == IF n = 0 THEN 1 ELSE 10 * Pow10(n - 1)

\* the natural number a run of digits writes
RECURSIVE DigitsToNat(_)
DigitsToNat(ds) ==
    IF Len(ds) = 0 THEN 0 ELSE 10 * DigitsToNat(SubSeq(ds, 1, Len(ds) - 1)) + DigitValue(ds[Len(ds)])

NoParse == [ok |-> FALSE, numValue |-> [n |-> 0, scale |-> 0], unit |-> << >>]

\* the match of sign, whole digits, dot and fraction digits, of those lengths
ParsedNumber(value, sign, whole, dot, frac) ==
    [ok |-> TRUE,
     numValue |-> [n |-> IF sign = 1 /\ value[1] = "-"
                         THEN 0 - DigitsToNat(SubSeq(value, sign + 1, sign + whole)
                                              \o SubSeq(value, sign + whole + dot + 1,
                                                        sign + whole + dot + frac))
                         ELSE DigitsToNat(SubSeq(value, sign + 1, sign + whole)
                                          \o SubSeq(value, sign + whole + dot + 1,
                                                    sign + whole + dot + frac)),
                   scale |-> frac],
     unit |-> Trim(SubSeq(value, sign + whole + dot + frac + 1, Len(value)))]

ParseFraction(value, sign, whole, dot) ==
    ParsedNumber(value, sign, whole, dot, DigitRun(value, sign + whole + dot))

ParseWhole(value, sign, whole) ==
    IF whole = 0 THEN NoParse
    ELSE ParseFraction(value, sign, whole,
                       IF sign + whole < Len(value) /\ value[sign + whole + 1] = "."
                       THEN 1 ELSE 0)

ParseSigned(value, sign) == ParseWhole(value, sign, DigitRun(value, sign))

\* value.match(/^([-+]?\d+\.?\d*)\s*(.*)$/), parseFloat of group 1 and the
\* trimmed group 2; numValue is n / 10^scale, an absent unit is the empty string
parseNumberWithUnit(value) ==
    ParseSigned(value, IF Len(value) > 0 /\ value[1] \in { "-", "+" } THEN 1 ELSE 0)

COMMA_SP == << ",", " " >>

\* OptionValidator.getNumberSuggestion
getNumberSuggestion(units) ==
    IF Len(units) > 0
    THEN << "Examples: 10" >> \o units[1] \o << ", 10 " >> \o units[1]
    ELSE << "Examples: 10, 10.5" >>

\* a number check that takes any unit once units are declared
OptionValidator_validateNumber_anyUnit(value, units) ==
    With(parseNumberWithUnit(value),
         LAMBDA parseResult :
            IF ~parseResult.ok
            THEN Invalid(<< "Invalid number format" >>, getNumberSuggestion(units))
            ELSE IF Len(units) > 0
            THEN IF parseResult.unit = << >>
                 THEN Invalid(<< "Unit required" >>,
                              << "Valid units: " >> \o Join(units, COMMA_SP))
                 ELSE Valid
            ELSE IF parseResult.unit # << >>
            THEN Invalid(<< "No unit expected" >>, << "Enter plain number" >>)
            ELSE Valid)

OptionValidator_validateNumber(value, units) ==
    With(parseNumberWithUnit(value),
         LAMBDA parseResult :
            IF ~parseResult.ok
            THEN Invalid(<< "Invalid number format" >>, getNumberSuggestion(units))
            ELSE IF Len(units) > 0
            THEN IF parseResult.unit = << >>
                 THEN Invalid(<< "Unit required" >>,
                              << "Valid units: " >> \o Join(units, COMMA_SP))
                 ELSE IF parseResult.unit \notin Range(units)
                 THEN Invalid(<< "Invalid unit \"" >> \o parseResult.unit \o << "\"" >>,
                              << "Valid units: " >> \o Join(units, COMMA_SP))
                 ELSE Valid
            ELSE IF parseResult.unit # << >>
            THEN Invalid(<< "No unit expected" >>, << "Enter plain number" >>)
            ELSE Valid)

BooleanValues == { << "t", "r", "u", "e" >>, << "f", "a", "l", "s", "e" >>,
                   << "y", "e", "s" >>, << "n", "o" >> }

OptionValidator_validateBoolean(value) ==
    IF ToLowerCase(value) \notin BooleanValues
    THEN Invalid(<< "Invalid boolean value" >>, << "Valid: true, false, yes, no" >>)
    ELSE Valid

OptionValidator_validateEnum(value, enumValues) ==
    IF Len(enumValues) = 0 THEN Valid
    ELSE IF value \notin Range(enumValues)
    THEN Invalid(<< "Invalid value" >>, << "Valid: " >> \o Join(enumValues, COMMA_SP))
    ELSE Valid

\* OptionValidator.validate(value, option)
OptionValidator_validate(value, option) ==
    LET trimmedValue == Trim(value)
    IN IF IsBlank(value) THEN Valid
       ELSE IF option.type = "absent" THEN Valid
       ELSE IF option.type = "number" THEN OptionValidator_validateNumber(trimmedValue, option.units)
       ELSE IF option.type = "boolean" THEN OptionValidator_validateBoolean(trimmedValue)
       ELSE IF option.type = "enum" THEN OptionValidator_validateEnum(trimmedValue, option.enumValues)
       ELSE Valid

\* ValueValidator.getNumberFormatSuggestion
getNumberFormatSuggestion(config) ==
    LET exampleUnit == IF config.defaultUnit # << >> THEN config.defaultUnit ELSE config.units[1]
        examples == IF Len(config.units) > 0
                    THEN << << "10" >> \o exampleUnit, << "10 " >> \o exampleUnit >>
                    ELSE << << "10" >> >>
                         \o (IF config.validation.allowDecimal THEN << << "10.5" >> >> ELSE << >>)
    IN << "Examples: " >> \o Join(examples, COMMA_SP)

\* a number written as a string in one piece
Shown(n) == << ToString(n) >>

\* the checks of a parsed number: decimals, range, unit
CheckNumber(numValue, unit, config, v) ==
    IF ~v.allowDecimal /\ numValue.n % Pow10(numValue.scale) # 0
    THEN Invalid(<< "Decimal numbers are not allowed" >>, << "Please enter an integer value" >>)
    ELSE IF v.hasMin /\ numValue.n < v.min * Pow10(numValue.scale)
    THEN Invalid(<< "Value must be at least " >> \o Shown(v.min),
                 << "Enter a value >= " >> \o Shown(v.min))
    ELSE IF v.hasMax /\ numValue.n > v.max * Pow10(numValue.scale)
    THEN Invalid(<< "Value must be at most " >> \o Shown(v.max),
                 << "Enter a value <= " >> \o Shown(v.max))
    ELSE IF unit # << >>
    THEN IF Len(config.units) > 0 /\ unit \notin Range(config.units)
         THEN Invalid(<< "Invalid unit \"" >> \o unit \o << "\"" >>,
                      << "Valid units: " >> \o Join(config.units, COMMA_SP))
         ELSE Valid
    ELSE IF config.unitBehavior = "required" /\ Len(config.units) > 0
    THEN Invalid(<< "Unit is required" >>, << "Add a unit: " >> \o Join(config.units, COMMA_SP))
    ELSE Valid

ValueValidator_validateNumber(value, config) ==
    With(parseNumberWithUnit(value),
         LAMBDA parseResult :
            IF ~parseResult.ok
            THEN Invalid(<< "Invalid number format" >>, getNumberFormatSuggestion(config))
            ELSE CheckNumber(parseResult.numValue, parseResult.unit, config,
                             config.validation))

\* new RegExp(pattern).test(value) for the patterns of the model: "^\\d+$",
\* and "(" which is no regular expression (the constructor throws)
DigitsPattern == "^\\d+$"
BrokenPattern == "("
RegExpThrows(pattern) == pattern = BrokenPattern
RegExpTest(pattern, value) ==
    IF pattern = DigitsPattern THEN Len(value) > 0 /\ \A i \in 1..Len(value) : IsDigit(value[i])
    ELSE TRUE

ValueValidator_validateText(value, config) ==
    LET v == config.validation
    IN IF v.hasMinLength /\ Len(value) < v.minLength
       THEN Invalid(<< "Text must be at least " >> \o Shown(v.minLength) \o << " characters" >>,
                    << "Current length: " >> \o Shown(Len(value)))
       ELSE IF v.hasMaxLength /\ Len(value) > v.maxLength
       THEN Invalid(<< "Text must be at most " >> \o Shown(v.maxLength) \o << " characters" >>,
                    << "Current length: " >> \o Shown(Len(value)))
       ELSE IF v.pattern # "" /\ ~RegExpThrows(v.pattern) /\ ~RegExpTest(v.pattern, value)
       THEN Invalid(IF v.customErrorMessage # << >> THEN v.customErrorMessage
                    ELSE << "Value does not match required pattern" >>,
                    << "Pattern: ", v.pattern >>)
       ELSE Valid

\* a validate that hands a blank value to the check of the type
ValueValidator_validate_blankTyped(value, config) ==
    IF config.type = "number" THEN ValueValidator_validateNumber(Trim(value), config)
    ELSE IF config.type = "text" THEN ValueValidator_validateText(Trim(value), config)
    ELSE Valid

\* ValueValidator.validate(value, config)
ValueValidator_validate(value, config) ==
    LET trimmedValue == Trim(value)
    IN IF IsBlank(value)
       THEN IF config.validation.required
            THEN Invalid(IF config.validation.customErrorMessage # << >>
                         THEN config.validation.customErrorMessage
                         ELSE << "Value is required" >>, << >>)
            ELSE Valid
       ELSE IF config.type = "number" THEN ValueValidator_validateNumber(trimmedValue, config)
       ELSE IF config.type = "text" THEN ValueValidator_validateText(trimmedValue, config)
       ELSE Valid

(***************************************************************************)
(* ValueValidatorExtension and ValidationDecorator, for the one open file. *)
(* validationTimeouts holds the cursor lines of the keys `${path}-${line}` *)
(* of the Map, timers.pending counts per such line the timeouts the host   *)
(* has yet to run, lastValidatedContent maps such lines to texts, errors   *)
(* is decorator.getErrors(path).                                           *)
(***************************************************************************)
\* a validateWithDebounce that schedules without clearing the timeout it holds
clearTimeout_kept(t, held, key) == t

\* clearTimeout(this.validationTimeouts.get(lineKey)) when the Map holds the key:
\* the timeout it holds is the latest one scheduled for the key
clearTimeout(t, held, key) ==
    IF key \in held /\ t.pending[key] > 0
    THEN [pending |-> [t.pending EXCEPT ![key] = @ - 1], cancelled |-> TRUE]
    ELSE [t EXCEPT !.cancelled = FALSE]

\* setTimeout(callback, delay) for the key
setTimeout(t, key) == [t EXCEPT !.pending[key] = @ + 1]

\* String.prototype.indexOf(q, from): 0-based, -1 when absent
IndexOfStr(s, q, from) ==
    LET at == { i \in from..(Len(s) - Len(q)) : SubSeq(s, i + 1, i + Len(q)) = q }
    IN IF at = {} THEN -1 ELSE CHOOSE i \in at : \A j \in at : i <= j

\* editor.posToOffset: every line before the position counts its characters and a newline
RECURSIVE posToOffset(_, _, _)
posToOffset(d, line, ch) ==
    IF line = 0 THEN ch ELSE Len(d[line]) + 1 + posToOffset(d, line - 1, 0) + ch

\* the check of one value: by the option of the line's key if it has a type,
\* else by the rule's valueConfig if there is one
validateValue(d, line, currentLine, colonIndex, valuePart, matchingRule, found) ==
    LET byOption == found # {} /\ matchingRule.options[Least(found)].type # "absent"
    IN IF ~byOption /\ matchingRule.valueConfig.type = "absent" THEN << >>
       ELSE With(IF byOption
                 THEN OptionValidator_validate(valuePart, matchingRule.options[Least(found)])
                 ELSE ValueValidator_validate(valuePart, matchingRule.valueConfig),
                 LAMBDA result :
                    IF result.valid THEN << >>
                    ELSE With(IndexOfStr(currentLine, valuePart, colonIndex),
                              LAMBDA valueStart :
                                 << [from |-> posToOffset(d, line, valueStart),
                                     to |-> posToOffset(d, line, valueStart + Len(valuePart)),
                                     result |-> result] >>))

\* a line governed by matchingRule: its key and value around the first colon
validateKeyValue(d, line, currentLine, colonIndex, matchingRule) ==
    LET keyPart == Trim(Substring(currentLine, 0, colonIndex))
    IN IF colonIndex = -1 THEN << >>
       ELSE With(Trim(Substring(currentLine, colonIndex + 1, Len(currentLine))),
                 LAMBDA valuePart :
                    IF valuePart = << >> THEN << >>
                    ELSE validateValue(d, line, currentLine, colonIndex, valuePart, matchingRule,
                                       { i \in 1..Len(matchingRule.options) :
                                            matchingRule.options[i].key = keyPart }))

\* a loop body that does not look at the rule's enabled flag
validateLine_anyRule(d, rs, line) ==
    IF ~isInFrontmatter([line |-> line, ch |-> 0], d) THEN << >>
    ELSE With(getCurrentFieldPath([line |-> line, ch |-> 0], d),
              LAMBDA fieldContext :
                 IF ~fieldContext.ok THEN << >>
                 ELSE With(findMatchingRuleV(rs, fieldContext.path),
                           LAMBDA matchingRule :
                              IF matchingRule = NoRule THEN << >>
                              ELSE validateKeyValue(d, line, GetLine(d, line),
                                                    IndexOf(GetLine(d, line), ":"),
                                                    matchingRule)))

\* one turn of the loop of validateAllFrontmatter: the errors of one line
validateLine(d, rs, line) ==
    IF ~isInFrontmatter([line |-> line, ch |-> 0], d) THEN << >>
    ELSE With(getCurrentFieldPath([line |-> line, ch |-> 0], d),
              LAMBDA fieldContext :
                 IF ~fieldContext.ok THEN << >>
                 ELSE With(findMatchingRuleV(rs, fieldContext.path),
                           LAMBDA matchingRule :
                              IF matchingRule = NoRule \/ ~matchingRule.enabled THEN << >>
                              ELSE validateKeyValue(d, line, GetLine(d, line),
                                                    IndexOf(GetLine(d, line), ":"),
                                                    matchingRule)))

validateAllFrontmatter(d, rs) ==
    Concat([l \in 1..LineCount(d) |-> validateLine(d, rs, l - 1)])

\* Map.prototype.get and set on lastValidatedContent
CacheHas(cache, key, content) == key \in DOMAIN cache /\ cache[key] = content
CacheSet(cache, key, content) ==
    [k \in (DOMAIN cache) \cup { key } |-> IF k = key THEN content ELSE cache[k]]

\* validateAtCursor: the cache and the stored errors it leaves, and whether a
\* validation pass was made (the toast it may show is no state)
validateAtCursor(d, cur, rs, cache, stored) ==
    LET content == d
        contentKey == cur.line
    IN IF ~isInFrontmatter(cur, d)
       THEN [lastValidatedContent |-> cache, errors |-> << >>, inBlock |-> FALSE, passed |-> FALSE]
       ELSE IF CacheHas(cache, contentKey, content)
       THEN [lastValidatedContent |-> cache, errors |-> stored, inBlock |-> TRUE, passed |-> FALSE]
       ELSE [lastValidatedContent |-> CacheSet(cache, contentKey, content),
             errors |-> validateAllFrontmatter(d, rs), inBlock |-> TRUE, passed |-> TRUE]

\* line l of the text becomes newLine, the cursor at its end
Rewrite(l, currentLine, colonIndex, newLine) ==
    /\ getIndent(currentLine) > 0
    /\ colonIndex # -1
    /\ newLine # currentLine
    /\ doc' = [doc EXCEPT ![l + 1] = newLine]
    /\ cursor' = [line |-> l, ch |-> Len(newLine)]

\* the user rewrites the value of the key line l: the editor-change event calls
\* validateWithDebounce, which restarts the timer of the cursor's line
EditValue(l, v) ==
    /\ l \in 0..(Len(doc) - 1)
    /\ isInFrontmatter([line |-> l, ch |-> 0], doc)
    /\ Rewrite(l, GetLine(doc, l), IndexOf(GetLine(doc, l), ":"),
               Substring(GetLine(doc, l), 0, IndexOf(GetLine(doc, l), ":") + 1)
               \o (IF v = << >> THEN << >> ELSE << " " >> \o v))
    /\ validationTimeouts' = validationTimeouts \cup { l }
    /\ timers' = setTimeout(clearTimeout(timers, validationTimeouts, l), l)
    /\ lastFire' = [editPending |-> TRUE, editLine |-> l, settled |-> FALSE,
                    repeatedPass |-> FALSE]
    /\ UNCHANGED << rules, minMatchLength, selectedItems, isMultiSelectMode, currentSuggestions,
                    context, toggleLog, toggleOrigin, last, lastValidatedContent, errors,
                    passCount, lastPassContent, matchVars, pureVars >>

\* the cursor goes to the end of another line; no editor-change event
MoveTo(l) ==
    /\ l \in 0..(Len(doc) - 1)
    /\ l # cursor.line
    /\ cursor' = [line |-> l, ch |-> Len(GetLine(doc, l))]
    /\ UNCHANGED << doc, rules, minMatchLength, selectedItems, isMultiSelectMode,
                    currentSuggestions, context, toggleLog, toggleOrigin, last,
                    validatorVars, matchVars, pureVars >>

\* the fields after validateAtCursor returned r in the timer of key; latest
\* tells that key is the timer of the latest edit
Validated(key, r, latest) ==
    /\ r.passed => passCount < MaxPasses
    /\ lastValidatedContent' = r.lastValidatedContent
    /\ errors' = r.errors
    /\ passCount' = IF r.passed THEN passCount + 1 ELSE passCount
    /\ lastPassContent' = IF r.passed THEN doc ELSE lastPassContent
    /\ lastFire' = [editPending |-> lastFire.editPending /\ ~latest,
                    editLine |-> IF latest THEN 0 ELSE lastFire.editLine,
                    settled |-> IF latest THEN r.inBlock ELSE lastFire.settled,
                    repeatedPass |-> r.passed /\ passCount > 0 /\ doc = lastPassContent]

\* the timeout of key fires: validateAtCursor at the cursor's present position,
\* then validationTimeouts.delete(lineKey)
TimerFires(key) ==
    /\ timers.pending[key] > 0
    /\ Validated(key, validateAtCursor(doc, cursor, rules, lastValidatedContent, errors),
                 lastFire.editPending /\ key = lastFire.editLine)
    /\ validationTimeouts' = validationTimeouts \ { key }
    /\ timers' = [timers EXCEPT !.pending[key] = @ - 1]
    /\ UNCHANGED << doc, cursor, rules, minMatchLength, selectedItems, isMultiSelectMode,
                    currentSuggestions, context, toggleLog, toggleOrigin, last, matchVars, pureVars >>

KeyX == << "x" >>
KeyY == << "y" >>
KM == << "k", "m" >>
LineX5 == << " ", " ", "x", ":", " ", "5" >>
LineY5km == << " ", " ", "y", ":", " ", "5", "k", "m" >>

\* ---
\* A:
\*   x: 5
\*   y: 5km
\* ---
DocValues == << DELIM, LineA, LineX5, LineY5km, DELIM >>

\* x takes a plain number, y a number of km
TypedOptions == << MkTypedOption(KeyX, "number", << >>, << >>),
                   MkTypedOption(KeyY, "number", << KM >>, << >>) >>

RulesTyped == << MkRule(1, << "A" >>, TRUE, FALSE, TypedOptions, NoValueConfig) >>

\* the values the user types
EditValues == { << "5" >>, << "5", "k", "m" >> }

ValidateInit ==
    /\ doc = DocValues
    /\ rules = RulesTyped
    /\ minMatchLength = 0
    /\ cursor = [line |-> 0, ch |-> 0]
    /\ QuietSuggester
    /\ QuietValidator
    /\ matchPath = << >>
    /\ matchedS = NoRule
    /\ matchedV = NoRule
    /\ QuietPure

ValidateNext ==
    \/ \E l \in 0..(MaxLines - 1), v \in EditValues : EditValue(l, v)
    \/ \E l \in 0..(MaxLines - 1) : MoveTo(l)
    \/ \E key \in 0..(MaxLines - 1) : TimerFires(key)

SpecValidate == ValidateInit /\ [][ValidateNext]_vars

(***************************************************************************)
(* Properties of the validation driver.  lastFire.repeatedPass tells that  *)
(* the last firing made a pass over the text of the pass before it;        *)
(* lastFire.settled that the timer of the latest edit has fired with the   *)
(* cursor inside the block and no edit was made since.                     *)
(***************************************************************************)
\* C8: a validation trigger on a text equal to the text of the last completed
\* pass makes no second pass, whatever the cursor line.
C8_NoSecondPassOnSameText == ~lastFire.repeatedPass

\* C9: once the text holds no invalid value and the debounced validation of
\* the latest edit has fired with the cursor inside the block, no error is
\* stored for the file.
C9_ErrorsClearWhenFixed ==
    (lastFire.settled /\ validateAllFrontmatter(doc, rules) = << >>) => errors = << >>

(***************************************************************************)
(* The two validators on their own: a value, an option and a value         *)
(* configuration are drawn, and one step validates the value against both. *)
(***************************************************************************)
M == << "m" >>
V10km == << "1", "0", "k", "m" >>
V10miles == << "1", "0", "m", "i", "l", "e", "s" >>
V50 == << "5", "0" >>
V50km == << "5", "0", "k", "m" >>
V10 == << "1", "0" >>
V10spkm == << "1", "0", " ", "k", "m" >>
VPadded == << " ", "1", "0", "k", "m", " " >>
VMinus5 == << "-", "5" >>
VPlus5m == << "+", "5", "m" >>
V10p5 == << "1", "0", ".", "5" >>
V10dot == << "1", "0", "." >>
VDot5 == << ".", "5" >>
VWord == << "a", "b", "c" >>
VKm == << "k", "m" >>
VYes == << "Y", "E", "S" >>
VSpaces == << " ", " " >>

CheckValues ==
    { V10km, V10miles, V50, V50km, V10, V10spkm, VPadded, VMinus5, VPlus5m, V10p5, V10dot,
      VDot5, VWord, VKm, VYes, VSpaces, << >> }

CheckUnitLists == { << >>, << KM >>, << M, KM >> }

CheckOptions ==
    { MkTypedOption(KeyX, "number", units, << >>) : units \in CheckUnitLists }
       \cup { MkOption(KeyX, << >>),
              MkTypedOption(KeyX, "boolean", << >>, << >>),
              MkTypedOption(KeyX, "enum", << >>, << >>),
              MkTypedOption(KeyX, "enum", << >>, << VWord, V10 >>) }

\* value configurations of the rule editor: number with and without units and
\* with each unit behaviour, limits, text limits, required fields
NumberConfig(units, unitBehavior, validation) ==
    [type |-> "number", units |-> units, defaultUnit |-> << >>, unitBehavior |-> unitBehavior,
     validation |-> validation]

TextConfig(validation) ==
    [type |-> "text", units |-> << >>, defaultUnit |-> << >>, unitBehavior |-> "optional",
     validation |-> validation]

CheckConfigs ==
    { NumberConfig(units, b, NoValidation) :
         units \in CheckUnitLists, b \in { "optional", "required", "none" } }
       \cup { NumberConfig(<< >>, "optional", [NoValidation EXCEPT !.required = TRUE]),
              NumberConfig(<< KM >>, "optional", [NoValidation EXCEPT !.allowDecimal = FALSE]),
              NumberConfig(<< >>, "optional",
                           [NoValidation EXCEPT !.hasMin = TRUE, !.min = 0,
                                                !.hasMax = TRUE, !.max = 10]),
              TextConfig(NoValidation),
              TextConfig([NoValidation EXCEPT !.required = TRUE,
                                              !.customErrorMessage = << "Fill me" >>]),
              TextConfig([NoValidation EXCEPT !.hasMinLength = TRUE, !.minLength = 3,
                                              !.hasMaxLength = TRUE, !.maxLength = 4]),
              TextConfig([NoValidation EXCEPT !.pattern = DigitsPattern]),
              [NoValueConfig EXCEPT !.type = "none"],
              [NoValueConfig EXCEPT !.type = "none", !.validation.required = TRUE] }

CheckInit ==
    /\ doc = DocParent
    /\ rules = << >>
    /\ minMatchLength = 0
    /\ cursor = [line |-> 0, ch |-> 0]
    /\ QuietSuggester
    /\ QuietValidator
    /\ matchPath = << >>
    /\ matchedS = NoRule
    /\ matchedV = NoRule
    /\ resolution = NoResolution
    /\ \E value \in CheckValues, option \in CheckOptions, config \in CheckConfigs :
          verdict = [NoVerdict EXCEPT !.value = value, !.option = option, !.config = config]

\* OptionValidator.validate and ValueValidator.validate on the drawn value
Check ==
    /\ ~verdict.done
    /\ verdict' = [verdict EXCEPT !.done = TRUE,
                                  !.byOption = OptionValidator_validate(verdict.value,
                                                                        verdict.option),
                                  !.byConfig = ValueValidator_validate(verdict.value,
                                                                       verdict.config)]
    /\ UNCHANGED << doc, cursor, rules, minMatchLength, suggestVars, validatorVars, matchVars,
                    resolution >>

CheckNext == Check

SpecCheck == CheckInit /\ [][CheckNext]_vars

(***************************************************************************)
(* Properties of the validators                                            *)
(***************************************************************************)
\* x is a signed decimal numeral: an optional sign, digits, and optionally a
\* dot with or without digits after it
IsNumeral(x) ==
    \E sign \in 0..1, whole \in 1..Len(x), dot \in 0..1 :
       /\ sign + whole + dot <= Len(x)
       /\ sign = 1 => x[1] \in { "-", "+" }
       /\ \A i \in (sign + 1)..(sign + whole) : IsDigit(x[i])
       /\ dot = 1 => x[sign + whole + 1] = "."
       /\ dot = 0 => sign + whole = Len(x)
       /\ \A i \in (sign + whole + dot + 1)..Len(x) : IsDigit(x[i])

\* the lengths of the prefixes of t that are numerals
NumeralPrefixes(t) == { n \in 1..Len(t) : IsNumeral(SubSeq(t, 1, n)) }

Greatest(S) == CHOOSE i \in S : \A j \in S : i >= j

\* what follows the leading numeral of t, without the spaces around it
UnitAfterNumeral(t) == Trim(SubSeq(t, Greatest(NumeralPrefixes(t)) + 1, Len(t)))

\* the unit rule of the number type for the declared unit list
UnitAllowed(unit, units) ==
    \/ Len(units) > 0 /\ unit \in Range(units)
    \/ Len(units) = 0 /\ unit = << >>

\* message holds the word as consecutive pieces
Mentions(message, word) ==
    \E i \in 0..(Len(message) - Len(word)) : SubSeq(message, i + 1, i + Len(word)) = word

NumberOption(units) == MkTypedOption(KeyX, "number", units, << >>)

\* the result the option validator gave for value under the number option with units
OptionSaid(value, units, result) ==
    (verdict.done /\ verdict.value = value /\ verdict.option = NumberOption(units))
       => result

\* C15: for a number option a non-blank value is valid exactly when it starts
\* with a signed decimal numeral and what follows is a declared unit, or
\* nothing when no unit is declared; "10km" with [km] is valid, "10miles" with
\* [km] is invalid with a suggestion naming km, "50" with [] is valid, "50km"
\* with [] is invalid (no unit expected), "10" with [km] is invalid (unit
\* required).
C15_OptionNumberUnits ==
    /\ (verdict.done /\ verdict.option.type = "number" /\ ~IsBlank(verdict.value))
          => (verdict.byOption.valid
                 <=> /\ NumeralPrefixes(Trim(verdict.value)) # {}
                     /\ UnitAllowed(UnitAfterNumeral(Trim(verdict.value)),
                                    verdict.option.units))
    /\ OptionSaid(V10km, << KM >>, verdict.byOption = Valid)
    /\ OptionSaid(V10miles, << KM >>,
                  ~verdict.byOption.valid /\ Mentions(verdict.byOption.suggestion, KM))
    /\ OptionSaid(V50, << >>, verdict.byOption = Valid)
    /\ OptionSaid(V50km, << >>,
                  ~verdict.byOption.valid /\ verdict.byOption.error = << "No unit expected" >>)
    /\ OptionSaid(V10, << KM >>,
                  ~verdict.byOption.valid /\ verdict.byOption.error = << "Unit required" >>)

\* "10miles" checked against the units [km]
C15_Witness ==
    /\ verdict.done
    /\ verdict.value = V10miles
    /\ verdict.option = NumberOption(<< KM >>)
    /\ ~verdict.byOption.valid

\* C16: the rule-level number check applies the unit rules of the number
\* type: with declared units a value without a unit is invalid and so is a
\* unit that is not declared; without declared units a value with a unit is
\* invalid.
C16_ConfigNumberUnits ==
    (/\ verdict.done
     /\ verdict.config.type = "number"
     /\ ~IsBlank(verdict.value)
     /\ NumeralPrefixes(Trim(verdict.value)) # {})
       => /\ (Len(verdict.config.units) > 0 /\ UnitAfterNumeral(Trim(verdict.value)) = << >>)
                => ~verdict.byConfig.valid
          /\ (/\ Len(verdict.config.units) > 0
              /\ UnitAfterNumeral(Trim(verdict.value)) \notin Range(verdict.config.units))
                => ~verdict.byConfig.valid
          /\ (Len(verdict.config.units) = 0 /\ UnitAfterNumeral(Trim(verdict.value)) # << >>)
                => ~verdict.byConfig.valid

\* a result with an error label and a suggestion when invalid, with neither when valid
WellFormedResult(r) ==
    IF r.valid THEN r.error = << >> /\ r.suggestion = << >>
    ELSE r.error # << >> /\ r.suggestion # << >>

\* C17: every result of either validator is well formed: an invalid one has a
\* non-empty error label and a suggestion, the required-field failure
\* included, and a valid one has neither.
C17_InvalidHasErrorAndSuggestion ==
    verdict.done => WellFormedResult(verdict.byOption) /\ WellFormedResult(verdict.byConfig)

\* C18: a blank value (empty or spaces only) is valid for the option validator
\* whatever the option, and for the rule-level validator whatever the
\* configuration unless it marks the field required; then the result is
\* invalid with the required error.
C18_BlankIsValidUnlessRequired ==
    (verdict.done /\ IsBlank(verdict.value))
       => /\ verdict.byOption = Valid
          /\ IF verdict.config.validation.required
             THEN /\ ~verdict.byConfig.valid
                  /\ verdict.byConfig.error
                        = (IF verdict.config.validation.customErrorMessage # << >>
                           THEN verdict.config.validation.customErrorMessage
                           ELSE << "Value is required" >>)
             ELSE verdict.byConfig = Valid

\* spaces only, checked against a number option with units and a required number field
C18_Witness ==
    /\ verdict.done
    /\ verdict.value = VSpaces
    /\ verdict.option = NumberOption(<< KM >>)
    /\ verdict.config.type = "number"
    /\ verdict.config.validation.required
    /\ verdict.byOption.valid
    /\ verdict.byConfig.error = << "Value is required" >>

(***************************************************************************)
(* Properties of the path resolver                                         *)
(***************************************************************************)
\* line 0 is the delimiter
OpensBlock(d) == Len(d) > 0 /\ Trim(GetLine(d, 0)) = DELIM

\* the later lines that are the delimiter
Closers(d) == { i \in 1..(Len(d) - 1) : Trim(GetLine(d, i)) = DELIM }

\* the line is strictly between the opening and the closing delimiter
StrictlyInside(d, l) == l > 0 /\ l < Least(Closers(d))

\* the upward walk from line l finds no segment: l carries no field token and
\* no line above it in the block carries one at the indentation of l
ZeroSegments(d, l) ==
    /\ extractFieldName(GetLine(d, l)) = NoName
    /\ \A j \in 1..(l - 1) :
          \/ extractFieldName(GetLine(d, j)) = NoName
          \/ getIndent(GetLine(d, j)) # getIndent(GetLine(d, l))

NoContextExpected(d, l) ==
    \/ ~OpensBlock(d)
    \/ Closers(d) = {}
    \/ ~StrictlyInside(d, l)
    \/ ZeroSegments(d, l)

\* C19: the resolver returns no context exactly when line 0 is not the
\* delimiter, or no later line is, or the cursor line is not strictly between
\* the two, or the upward walk finds no segment; otherwise it returns a
\* context whose path is not empty and has no empty segment.
C19_NoContextExactlyWhen ==
    resolution.done
       => /\ ~resolution.context.ok <=> NoContextExpected(doc, cursor.line)
          /\ resolution.context.ok
                => /\ resolution.context.path # << >>
                   /\ \A seg \in Range(Split(resolution.context.path, ".")) : seg # << >>

\* a blank indented line under a key: inside the block, and the walk finds nothing
C19_Witness ==
    /\ resolution.done
    /\ doc = << DELIM, LineA, LineBlank2, DELIM >>
    /\ cursor.line = 2
    /\ ~resolution.context.ok

\* C20: at every position the structured strategy and the heuristic strategy
\* give the same path and indent or both give nothing, and the context
\* returned has that path, line and indent whether the block parsed or not.
C20_StrategiesAgree ==
    resolution.done
       => /\ resolution.yaml = resolution.heuristic
          /\ resolution.context = resolution.heuristic

\* a nested line of a block that does not parse (the parent key occurs twice)
C20_Witness ==
    /\ resolution.done
    /\ doc = << DELIM, LineA, LineA, LineSubA1, DELIM >>
    /\ cursor.line = 3
    /\ ~resolution.parsed
    /\ resolution.context.ok
    /\ resolution.context.path = PathAa
    /\ resolution.yaml.path = PathAa

\* line j of d carries a field token
HasToken(d, j) == extractFieldName(GetLine(d, j)) # NoName

\* the token lines above line `below`, inside the block, at indentation `expected`
TokenLinesAbove(d, below, expected) ==
    { j \in 1..(below - 1) : HasToken(d, j) /\ getIndent(GetLine(d, j)) = expected }

\* the segments the walk collects above line `below`: the nearest token line at
\* the expected indentation, then the same from there with the expectation 2 lower
RECURSIVE AncestorsFrom(_, _, _)
AncestorsFrom(d, below, expected) ==
    IF TokenLinesAbove(d, below, expected) = {} THEN << >>
    ELSE AncestorsFrom(d, Greatest(TokenLinesAbove(d, below, expected)), expected - 2)
            \o << extractFieldName(GetLine(d, Greatest(TokenLinesAbove(d, below, expected)))) >>

\* the segments of the path at line l as the walk is described
WalkSegments(d, l) ==
    IF HasToken(d, l)
    THEN AncestorsFrom(d, l, getIndent(GetLine(d, l)) - 2) \o << extractFieldName(GetLine(d, l)) >>
    ELSE AncestorsFrom(d, l, getIndent(GetLine(d, l)))

\* the token lines above l that are indented less than `indent`
OuterLinesAbove(d, l, indent) ==
    { j \in 1..(l - 1) : HasToken(d, j) /\ getIndent(GetLine(d, j)) < indent }

\* the keys that enclose the token line l, outermost first, ending with its own
RECURSIVE EnclosingKeys(_, _)
EnclosingKeys(d, l) ==
    (IF OuterLinesAbove(d, l, getIndent(GetLine(d, l))) = {} THEN << >>
     ELSE EnclosingKeys(d, Greatest(OuterLinesAbove(d, l, getIndent(GetLine(d, l))))))
       \o << extractFieldName(GetLine(d, l)) >>

\* the token lines of the block of d, from its first line to line `upTo`
TokenLines(d, upTo) == { j \in 1..upTo : HasToken(d, j) }

\* the token lines up to `upTo` are indented by 2 per level: the first at 0,
\* every other at most 2 deeper than the token line before it, all evenly
ConsistentlyIndented(d, upTo) ==
    \A j \in TokenLines(d, upTo) :
       /\ getIndent(GetLine(d, j)) % 2 = 0
       /\ IF TokenLines(d, j - 1) = {} THEN getIndent(GetLine(d, j)) = 0
          ELSE getIndent(GetLine(d, j))
                  <= getIndent(GetLine(d, Greatest(TokenLines(d, j - 1)))) + 2

\* C21: the path resolved at a line inside the block is the one the upward
\* walk builds (the line's own token last, each nearest token line at the
\* expected indentation prepended, the expectation dropping by 2), with the
\* line's indentation; on a token line of a block indented by 2 per level it
\* is the chain of the enclosing keys.
C21_PathIsUpwardWalk ==
    (resolution.done /\ ~NoContextExpected(doc, cursor.line))
       => /\ resolution.context.ok
          /\ resolution.context.path = Join(WalkSegments(doc, cursor.line), DOT)
          /\ resolution.context.indent = getIndent(GetLine(doc, cursor.line))
          /\ resolution.context.line = cursor.line
          /\ (HasToken(doc, cursor.line) /\ ConsistentlyIndented(doc, cursor.line))
                => resolution.context.path = Join(EnclosingKeys(doc, cursor.line), DOT)

\* A: / "  b:" / "    a:" with the cursor on the last: A.b.a at indent 4
C21_Witness ==
    /\ resolution.done
    /\ doc = << DELIM, LineA, LineSubBKey, LineDeepA, DELIM >>
    /\ cursor.line = 3
    /\ resolution.context.path = << "A", ".", "b", ".", "a" >>
    /\ resolution.context.indent = 4

(***************************************************************************)
(* Properties of the debounce timers                                       *)
(***************************************************************************)
\* C22: per key at most one validation timeout is pending, so a run that a
\* later trigger of the same key superseded never executes, and the Map
\* holds exactly the keys with a pending timeout.
C22_OnePendingTimerPerKey ==
    \A key \in 0..(MaxLines - 1) :
       /\ timers.pending[key] <= 1
       /\ key \in validationTimeouts <=> timers.pending[key] = 1

\* an edit on line 2 while the timeout of line 2 was pending
C22_Witness ==
    /\ timers.cancelled
    /\ timers.pending[2] = 1
    /\ validationTimeouts = { 2 }
    /\ cursor.line = 2

(***************************************************************************)
(* The validation driver under changing settings: the value of a line is   *)
(* rewritten, the cursor moves, timers fire, and the settings tab replaces *)
(* the rules (updateSuggester -> updateSettings).                          *)
(***************************************************************************)
\* ---
\* A:
\*   x: 5
\* ---
DocOneValue == << DELIM, LineA, LineX5, DELIM >>

UntypedOptions == << MkOption(KeyX, << >>), MkOption(KeyY, << >>) >>
HalfTypedOptions == << MkTypedOption(KeyX, "number", << >>, << >>), MkOption(KeyY, << >>) >>

\* a required number of km
RequiredKm == NumberConfig(<< KM >>, "required", [NoValidation EXCEPT !.required = TRUE])

RulesLegacy == << MkRule(1, << "A" >>, TRUE, FALSE, UntypedOptions, RequiredKm) >>
RulesMixed == << MkRule(1, << "A" >>, TRUE, FALSE, HalfTypedOptions, RequiredKm) >>
RulesTypedOff == << MkRule(1, << "A" >>, FALSE, FALSE, TypedOptions, RequiredKm) >>
RulesBare == << MkRule(1, << "A" >>, TRUE, FALSE, UntypedOptions, NoValueConfig) >>

SettingsRuleLists == { RulesLegacy, RulesMixed, RulesTypedOff, RulesBare }

\* the values the user types; the empty one leaves "key:"
SettingsValues == { << "5" >>, << "5", "k", "m" >>, << >> }

SettingsInit ==
    /\ doc = DocOneValue
    /\ rules \in SettingsRuleLists
    /\ minMatchLength = 0
    /\ cursor = [line |-> 0, ch |-> 0]
    /\ QuietSuggester
    /\ QuietValidator
    /\ matchPath = << >>
    /\ matchedS = NoRule
    /\ matchedV = NoRule
    /\ QuietPure

\* plugin.updateSuggester(): validator.updateSettings(settings) and
\* suggester.updateSettings(settings) replace the rules, nothing else
UpdateSettings(rs) ==
    /\ rs # rules
    /\ rules' = rs
    /\ UNCHANGED << doc, cursor, minMatchLength, suggestVars, validatorVars, matchVars, pureVars >>

SettingsNext ==
    \/ \E l \in 0..(MaxLines - 1), v \in SettingsValues : EditValue(l, v)
    \/ \E l \in 0..(MaxLines - 1) : MoveTo(l)
    \/ \E key \in 0..(MaxLines - 1) : TimerFires(key)
    \/ \E rs \in SettingsRuleLists : UpdateSettings(rs)

SpecSettings == SettingsInit /\ [][SettingsNext]_vars

(***************************************************************************)
(* Properties of a validation pass                                         *)
(***************************************************************************)
\* the key and the value of a line around its first colon
KeyPart(line) == Trim(SubSeq(line, 1, IndexOf(line, ":")))
ValuePart(line) == Trim(SubSeq(line, IndexOf(line, ":") + 2, Len(line)))

\* the line an offset of the text lies on
LineAt(d, offset) ==
    CHOOSE l \in 0..(Len(d) - 1) :
       posToOffset(d, l, 0) <= offset /\ offset <= posToOffset(d, l, Len(GetLine(d, l)))

\* the rule that governs line l: the rule matched by the path resolved at the
\* line, inside the block
GoverningRule(d, rs, l) ==
    IF OpensBlock(d) /\ Closers(d) # {} /\ StrictlyInside(d, l)
          /\ getCurrentFieldPath([line |-> l, ch |-> 0], d).ok
    THEN findMatchingRuleV(rs, getCurrentFieldPath([line |-> l, ch |-> 0], d).path)
    ELSE NoRule

\* the options of the rule that bear the key and declare a type
TypedOptionsFor(rule, key) ==
    { i \in 1..Len(rule.options) :
         rule.options[i].key = key /\ rule.options[i].type # "absent" }

\* the line has a key and a value, and its rule says how to check the value
Checkable(rule, line) ==
    /\ rule # NoRule
    /\ rule.enabled
    /\ IndexOf(line, ":") # -1
    /\ TypedOptionsFor(rule, KeyPart(line)) # {} \/ rule.valueConfig.type # "absent"

\* the result of the check the rule prescribes for the value of the line
PrescribedResult(rule, line) ==
    IF TypedOptionsFor(rule, KeyPart(line)) # {}
    THEN OptionValidator_validate(ValuePart(line),
                                  rule.options[Least(TypedOptionsFor(rule, KeyPart(line)))])
    ELSE ValueValidator_validate(ValuePart(line), rule.valueConfig)

\* the error is on a checkable line and carries the prescribed result
ErrorIsDue(e, d, rs, l) ==
    /\ Checkable(GoverningRule(d, rs, l), GetLine(d, l))
    /\ e.result = PrescribedResult(GoverningRule(d, rs, l), GetLine(d, l))
    /\ ~e.result.valid

\* a timer fires and validateAtCursor makes a pass
PassStep == \E key \in 0..(MaxLines - 1) : TimerFires(key) /\ passCount' > passCount

C24_StoredErrorsAreCurrent ==
    [][ \A key \in 0..(MaxLines - 1) :
           (TimerFires(key) /\ isInFrontmatter(cursor, doc))
              => errors' = validateAllFrontmatter(doc', rules') ]_vars

\* line l holds a key with a blank value, and its enabled rule checks the
\* value by a legacy configuration that marks it required
BlankButRequired(rule, line) ==
    /\ Checkable(rule, line)
    /\ TypedOptionsFor(rule, KeyPart(line)) = {}
    /\ rule.valueConfig.validation.required
    /\ IsBlank(ValuePart(line))

\* C29: a pass stores a required error for every line inside the block whose
\* value after the colon is blank and whose enabled rule has a legacy value
\* configuration that marks the value required.
C29_BlankRequiredIsReported ==
    [][ PassStep
          => \A l \in 0..(Len(doc') - 1) :
                BlankButRequired(GoverningRule(doc', rules', l), GetLine(doc', l))
                   => \E i \in 1..Len(errors') :
                         /\ LineAt(doc', errors'[i].from) = l
                         /\ errors'[i].result.error = << "Value is required" >> ]_vars

(***************************************************************************)
(* Single confirm against the flush of a one-key selected set.             *)
(***************************************************************************)
\* what a confirm of key would leave, in SINGLE mode and as the flush of {key}
SingleConfirm(key) ==
    handleParentFieldSelection(key, doc, cursor, getCurrentFieldPath(cursor, doc))

SingletonFlush(key) ==
    handleMultiSelection(doc, cursor, getCurrentFieldPath(cursor, doc), << key >>)

\* a list is open at the cursor and key is on it
Offered(key) ==
    /\ context.open
    /\ getCurrentFieldPath(cursor, doc).ok
    /\ \E i \in 1..Len(currentSuggestions) : currentSuggestions[i].key = key

\* C25: from one text and cursor, the confirm of a key k in SINGLE mode and
\* the flush of the selected set {k} in MULTI mode leave the same text and
\* the same cursor, on a parent key line and on a placeholder line.
C25_SingleEqualsSingletonFlush ==
    \A key \in { KeyA, KeyB } :
       Offered(key)
          => /\ SingleConfirm(key).doc = SingletonFlush(key).doc
             /\ SingleConfirm(key).cursor = SingletonFlush(key).cursor

(***************************************************************************)
(* Suggestion requests after an insertion.                                 *)
(***************************************************************************)
\* the cursor positions a request can be made from: the two ends of each line
RequestPositions(d) ==
    { [line |-> l, ch |-> c] : l \in 0..(Len(d) - 1), c \in 0..MaxCol }
       \cap { p \in [line : 0..(Len(d) - 1), ch : 0..MaxCol] :
                 p.ch \in { 0, Len(GetLine(d, p.line)) } }

\* the keys a request at p offers for the rule the path at p matches, when
\* that rule is `rule`
OfferedAt(rule, p, d, rs) ==
    With(getCurrentFieldPath(p, d),
         LAMBDA fieldContext :
            IF fieldContext.ok /\ findMatchingRule(rs, fieldContext.path) = rule
            THEN { o.key : o \in Range(generateSuggestions(rule, p, d)) }
            ELSE {})

\* C26: after a confirmed insertion made for the rule of path P, a request
\* for the same rule on the text the insertion left offers none of the keys
\* it inserted.
C26_InsertedKeysNotOfferedAgain ==
    last.inserted
       => With(findMatchingRule(rules, last.path),
               LAMBDA rule :
                  (rule # NoRule /\ rule.enabled)
                     => \A p \in RequestPositions(doc) :
                           OfferedAt(rule, p, doc, rules) \cap Range(last.keys) = {})

EnabledRuleApplies(rule, cur, d) ==
    /\ isInFrontmatter(cur, d)
    /\ rule.enabled
    /\ rule.sourceType = "inline"
    /\ With(getCurrentFieldPath(cur, d),
            LAMBDA fieldContext :
               /\ fieldContext.ok
               /\ rule.fieldPath = fieldContext.path
               /\ \E o \in Range(rule.options) :
                     o.key \notin Range(getExistingSubItemsByPath(fieldContext.path, d)))

\* C28: whenever an enabled inline rule is declared for exactly the path
\* resolved at the cursor and has an option not yet in the text, the request
\* at the cursor yields a list, whatever disabled rules come before it.
C28_DisabledRuleNeverHides ==
    (\E i \in 1..Len(rules) : EnabledRuleApplies(rules[i], cursor, doc))
       => onTrigger(cursor, doc, rules).ok

(***************************************************************************)
(* The trigger's start position and query.                                 *)
(***************************************************************************)
\* the characters of line from column a up to column b, none when a > b
Between(line, a, b) == SubSeq(line, a + 1, b)

\* C30: a trigger returned for the cursor starts on the cursor's line at a
\* column not after the cursor's, and its query is the text of the line
\* between the start column and the cursor, wherever on the line the cursor is.
C30_TriggerSpanEndsAtCursor ==
    With(onTrigger(cursor, doc, rules),
         LAMBDA t :
            t.ok => /\ t.line = cursor.line
                    /\ t.startCh <= cursor.ch
                    /\ t.query = Between(GetLine(doc, cursor.line), t.startCh, cursor.ch))

====
